---- MODULE Spec2Model ----
(***************************************************************************)
(* Verification model of the indicator / momentum-scoring core of the      *)
(* stock scanner (src/src/analysis/indicators.py and                       *)
(* src/src/analysis/momentum_scorer.py).                                   *)
(*                                                                         *)
(* Numbers.  The code computes in IEEE doubles.  Here every price,         *)
(* indicator and score is a fixed-point integer counting SCALE units per   *)
(* 1.0 (a score of 53.0 is 53 * SCALE).  Sums, differences, comparisons    *)
(* and products by integers are exact; a division is rounded down to the   *)
(* next unit.  The float results NaN and +inf that the code can produce    *)
(* are represented by the two values NaN and Inf outside the number range. *)
(***************************************************************************)
EXTENDS Integers, Sequences, FiniteSets, TLC

SCALE == 10 * 10 * 10

\* ---------------------------------------------------------------------
\* Bounds of the explored inputs (not program constants)
\* ---------------------------------------------------------------------
MaxRow == 2      \* scorer inputs: -MaxRow .. MaxRow steps around each breakpoint
MaxLen == 5      \* longest series passed to a single indicator call
MaxPeriod == 3   \* largest window passed to a single indicator call
MaxBars == 36    \* longest table run through the pipeline, longest stream of bars
MaxSwitches == 1 \* changes of the per-bar step within one stream of bars
MaxTableRows == 2 \* most rows of a table of several symbols

\* ---------------------------------------------------------------------
\* Program constants
\* ---------------------------------------------------------------------
VelocityDays == 5
WeightRsi == 30
WeightMacd == 30
WeightBollinger == 20
WeightVelocity == 20
MacdHistClamp == 2
RsiPeriod == 14
MacdFast == 12
MacdSlow == 26
MacdSignal == 9
BollingerPeriod == 20
BollingerStdDev == 2

\* ---------------------------------------------------------------------
\* Arithmetic helpers
\* ---------------------------------------------------------------------
Min(a, b) == IF a < b THEN a ELSE b
Max(a, b) == IF a > b THEN a ELSE b
Abs(a) == IF a < 0 THEN -a ELSE a

\* floor(a * m / b) for b > 0, without forming the product a * m
MulDiv(a, m, b) == (a \div b) * m + ((a % b) * m) \div b

\* the float quotient a / b of two fixed-point numbers, b # 0
FDiv(a, b) == IF b > 0 THEN MulDiv(a, SCALE, b) ELSE MulDiv(-a, SCALE, -b)

\* ---------------------------------------------------------------------
\* Float values that are not numbers
\* ---------------------------------------------------------------------
NaN == -(2^30)
Inf == 2^30
NegInf == -(2^30) + 1

\* a field value that is not a number (None, a string), and the outcome of
\* a call that ends in an exception instead of a value
Unparseable == 2^30 + 1
Raised == 2^30 + 2

\* a / b elementwise as numpy divides floats: x/0 is +-inf, 0/0 is NaN
float_div_zero_is_nan(a, b) ==
    IF a = NaN \/ b = NaN THEN NaN
    ELSE IF b = 0 THEN NaN
    ELSE FDiv(a, b)

float_div(a, b) ==
    IF a = NaN \/ b = NaN THEN NaN
    ELSE IF b = 0 THEN (IF a = 0 THEN NaN ELSE IF a > 0 THEN Inf ELSE NegInf)
    ELSE FDiv(a, b)

\* Series.fillna(value): value is a number or a series of the same length
fillna(xs, default) == [i \in 1 .. Len(xs) |-> IF xs[i] = NaN THEN default ELSE xs[i]]
fillna_series_with_zero(xs, ys) == [i \in 1 .. Len(xs) |-> IF xs[i] = NaN THEN 0 ELSE xs[i]]

fillna_series(xs, ys) == [i \in 1 .. Len(xs) |-> IF xs[i] = NaN THEN ys[i] ELSE xs[i]]

RECURSIVE SumRange(_, _, _)
SumRange(xs, lo, hi) == IF lo > hi THEN 0 ELSE xs[hi] + SumRange(xs, lo, hi - 1)

RECURSIVE SqrtIter(_, _)
SqrtIter(n, x) ==
    LET y == (x + n \div x) \div 2
    IN  IF y >= x THEN x ELSE SqrtIter(n, y)

\* floor of the square root of n >= 0
ISqrt(n) == IF n = 0 THEN 0 ELSE SqrtIter(n, n)

\* Series.diff(): the first element has no predecessor
diff(xs) == [i \in 1 .. Len(xs) |-> IF i = 1 THEN NaN ELSE xs[i] - xs[i - 1]]

\* Series.rolling(window).mean() of a series without NaN: NaN until the
\* window holds `window` observations
rolling_mean(xs, window) ==
    [i \in 1 .. Len(xs) |->
        IF i < window THEN NaN ELSE SumRange(xs, i - window + 1, i) \div window]

\* Series.rolling(window).std(): sample standard deviation (ddof = 1)
rolling_std(xs, window) ==
    [i \in 1 .. Len(xs) |->
        IF i < window \/ window < 2 THEN NaN
        ELSE LET mean == SumRange(xs, i - window + 1, i) \div window
                 sq == [j \in 1 .. Len(xs) |-> (xs[j] - mean) * (xs[j] - mean)]
             IN  ISqrt(SumRange(sq, i - window + 1, i) \div (window - 1))]

\* ---------------------------------------------------------------------
\* TechnicalIndicators.calculate_rsi
\* ---------------------------------------------------------------------
\* delta.where(delta > 0, 0): where the test is false (also on NaN) take 0
rolling_gain(prices, period) ==
    LET delta == diff(prices)
        up == [i \in 1 .. Len(prices) |->
                 IF delta[i] # NaN /\ delta[i] > 0 THEN delta[i] ELSE 0]
    IN  rolling_mean(up, period)

rolling_loss_signed(prices, period) ==
    LET delta == diff(prices)
        down == [i \in 1 .. Len(prices) |->
                   IF delta[i] # NaN /\ delta[i] < 0 THEN delta[i] ELSE 0]
    IN  rolling_mean(down, period)

rolling_loss(prices, period) ==
    LET delta == diff(prices)
        down == [i \in 1 .. Len(prices) |->
                   -(IF delta[i] # NaN /\ delta[i] < 0 THEN delta[i] ELSE 0)]
    IN  rolling_mean(down, period)

\* 100 - (100 / (1 + rs)) for one element
rsi_of_rs(rs) ==
    IF rs = NaN THEN NaN
    ELSE IF rs \in {Inf, NegInf} THEN 100 * SCALE
    ELSE IF SCALE + rs = 0 THEN NegInf
    ELSE 100 * SCALE - FDiv(100 * SCALE, SCALE + rs)

calculate_rsi_signed_loss(prices, period) ==
    LET gain == rolling_gain(prices, period)
        loss == rolling_loss_signed(prices, period)
        rs == [i \in 1 .. Len(prices) |-> float_div(gain[i], loss[i])]
        rsi == [i \in 1 .. Len(prices) |-> rsi_of_rs(rs[i])]
    IN  fillna(rsi, 50 * SCALE)

calculate_rsi(prices, period) ==
    LET gain == rolling_gain(prices, period)
        loss == rolling_loss(prices, period)
        rs == [i \in 1 .. Len(prices) |-> float_div(gain[i], loss[i])]
        rsi == [i \in 1 .. Len(prices) |-> rsi_of_rs(rs[i])]
    IN  fillna(rsi, 50 * SCALE)

\* ---------------------------------------------------------------------
\* TechnicalIndicators.calculate_macd
\* ---------------------------------------------------------------------
\* one step of Series.ewm(span, adjust=False).mean():
\* alpha = 2 / (span + 1), ema[t] = alpha * x[t] + (1 - alpha) * ema[t-1]
\* (the quotient is rounded to the nearest unit)
ema_step_swapped_weights(prev, x, span) ==
    (2 * ((span - 1) * x + 2 * prev) + (span + 1)) \div (2 * (span + 1))

ema_step(prev, x, span) ==
    (2 * (2 * x + (span - 1) * prev) + (span + 1)) \div (2 * (span + 1))

RECURSIVE ewm_from(_, _, _)
ewm_from(xs, span, acc) ==
    IF Len(acc) = Len(xs) THEN acc
    ELSE ewm_from(xs, span, Append(acc, ema_step(acc[Len(acc)], xs[Len(acc) + 1], span)))

\* the recurrence is seeded with the first observation
ewm_mean(xs, span) == IF Len(xs) = 0 THEN <<>> ELSE ewm_from(xs, span, <<xs[1]>>)

calculate_macd(prices, fast, slow, signal) ==
    LET ema_fast == ewm_mean(prices, fast)
        ema_slow == ewm_mean(prices, slow)
        macd_line == [i \in 1 .. Len(prices) |-> ema_fast[i] - ema_slow[i]]
        signal_line == ewm_mean(macd_line, signal)
        histogram == [i \in 1 .. Len(prices) |-> macd_line[i] - signal_line[i]]
    IN  [macd |-> fillna(macd_line, 0), signal |-> fillna(signal_line, 0),
         histogram |-> fillna(histogram, 0)]

\* ---------------------------------------------------------------------
\* TechnicalIndicators.calculate_bollinger_bands
\* ---------------------------------------------------------------------
band_plus(m, sd, std_dev) == IF m = NaN \/ sd = NaN THEN NaN ELSE m + (sd * std_dev) \div SCALE
band_minus(m, sd, std_dev) == IF m = NaN \/ sd = NaN THEN NaN ELSE m - (sd * std_dev) \div SCALE

calculate_bollinger_bands_swapped(prices, period, std_dev) ==
    LET middle_band == rolling_mean(prices, period)
        std == rolling_std(prices, period)
        upper_band == [i \in 1 .. Len(prices) |-> band_plus(middle_band[i], std[i], std_dev)]
        lower_band == [i \in 1 .. Len(prices) |-> band_minus(middle_band[i], std[i], std_dev)]
    IN  [upper |-> fillna_series(lower_band, prices),
         middle |-> fillna_series(middle_band, prices),
         lower |-> fillna_series(upper_band, prices)]

calculate_bollinger_bands(prices, period, std_dev) ==
    LET middle_band == rolling_mean(prices, period)
        std == rolling_std(prices, period)
        upper_band == [i \in 1 .. Len(prices) |-> band_plus(middle_band[i], std[i], std_dev)]
        lower_band == [i \in 1 .. Len(prices) |-> band_minus(middle_band[i], std[i], std_dev)]
    IN  [upper |-> fillna_series(upper_band, prices),
         middle |-> fillna_series(middle_band, prices),
         lower |-> fillna_series(lower_band, prices)]

\* ---------------------------------------------------------------------
\* MomentumScorer: component scores
\* ---------------------------------------------------------------------
score_rsi_closed_50(rsi) ==
    IF rsi < 30 * SCALE THEN Min(100 * SCALE, 80 * SCALE + (30 * SCALE - rsi) \div 3)
    ELSE IF rsi <= 50 * SCALE THEN 40 * SCALE + (rsi - 30 * SCALE) \div 2
    ELSE IF rsi < 70 * SCALE THEN 60 * SCALE + (rsi - 50 * SCALE) \div 2
    ELSE Max(0, 40 * SCALE - (rsi - 70 * SCALE) \div 3)

\* comparing a value that is not a number raises TypeError, which score_rsi
\* does not catch; every comparison with NaN is false, and max(0, NaN) is 0
score_rsi(rsi) ==
    IF rsi = Unparseable THEN Raised
    ELSE IF rsi = NaN THEN 0
    ELSE IF rsi < 30 * SCALE THEN Min(100 * SCALE, 80 * SCALE + (30 * SCALE - rsi) \div 3)
    ELSE IF rsi < 50 * SCALE THEN 40 * SCALE + (rsi - 30 * SCALE) \div 2
    ELSE IF rsi < 70 * SCALE THEN 60 * SCALE + (rsi - 50 * SCALE) \div 2
    ELSE Max(0, 40 * SCALE - (rsi - 70 * SCALE) \div 3)

score_macd_unfloored_bearish(macd, signal, histogram) ==
    IF histogram > 0
    THEN LET clamped_hist == Min(Abs(histogram), MacdHistClamp * SCALE)
             score == 50 * SCALE + (clamped_hist * 50) \div 2
         IN  Min(100 * SCALE, score)
    ELSE LET clamped_hist == Max(Abs(histogram), 0)
         IN  50 * SCALE - (clamped_hist * 50) \div 2

\* score_macd and score_bollinger_bands catch every exception and return 50
score_macd(macd, signal, histogram) ==
    IF histogram = Unparseable THEN 50 * SCALE
    ELSE IF histogram = NaN THEN 0
    ELSE IF histogram > 0
    THEN LET clamped_hist == Min(Abs(histogram), MacdHistClamp * SCALE)
             score == 50 * SCALE + (clamped_hist * 50) \div 2
         IN  Min(100 * SCALE, score)
    ELSE LET clamped_hist == Max(Abs(histogram), 0)
             score == 50 * SCALE - (clamped_hist * 50) \div 2
         IN  Max(0, score)

score_bollinger_bands_unguarded_width(close, bb_upper, bb_middle, bb_lower) ==
    IF bb_upper = bb_lower THEN 50 * SCALE
    ELSE LET band_width == bb_upper - bb_lower
             position == FDiv(close - bb_lower, band_width)
             clamped == Max(0, Min(SCALE, position))
         IN  100 * SCALE - clamped * 100

\* NaN == NaN is false, a NaN band width is not > 0, and min(1, NaN) is 1
score_bollinger_bands(close, bb_upper, bb_middle, bb_lower) ==
    IF bb_upper = bb_lower /\ bb_upper # NaN THEN 50 * SCALE
    ELSE IF Unparseable \in {close, bb_upper, bb_lower} THEN 50 * SCALE
    ELSE IF NaN \in {bb_upper, bb_lower} THEN 50 * SCALE
    ELSE IF close = NaN THEN (IF bb_upper > bb_lower THEN 0 ELSE 50 * SCALE)
    ELSE LET band_width == bb_upper - bb_lower
             position == IF band_width > 0
                         THEN FDiv(close - bb_lower, band_width)
                         ELSE SCALE \div 2
             clamped == Max(0, Min(SCALE, position))
         IN  100 * SCALE - clamped * 100

score_price_velocity_open_5(df_symbol, days) ==
    IF Len(df_symbol) < days + 1 THEN 50 * SCALE
    ELSE LET current_price == df_symbol[Len(df_symbol)]
             past_price == df_symbol[Len(df_symbol) - days]
         IN  IF past_price = 0 THEN 50 * SCALE
             ELSE LET pct_change == FDiv((current_price - past_price) * 100, past_price)
                  IN  IF pct_change > 5 * SCALE THEN Min(100 * SCALE, 80 * SCALE + pct_change)
                      ELSE IF pct_change >= 0 THEN 50 * SCALE + pct_change
                      ELSE IF pct_change >= -5 * SCALE THEN 50 * SCALE + pct_change
                      ELSE Max(0, 20 * SCALE + pct_change)

\* df_symbol is the close column of one symbol's table, oldest bar first
score_price_velocity(df_symbol, days) ==
    IF Len(df_symbol) < days + 1 THEN 50 * SCALE
    ELSE LET current_price == df_symbol[Len(df_symbol)]
             past_price == df_symbol[Len(df_symbol) - days]
         IN  IF past_price = 0 THEN 50 * SCALE
             ELSE LET pct_change == FDiv((current_price - past_price) * 100, past_price)
                  IN  IF pct_change >= 5 * SCALE THEN Min(100 * SCALE, 80 * SCALE + pct_change)
                      ELSE IF pct_change >= 0 THEN 50 * SCALE + pct_change
                      ELSE IF pct_change >= -5 * SCALE THEN 50 * SCALE + pct_change
                      ELSE Max(0, 20 * SCALE + pct_change)

\* ---------------------------------------------------------------------
\* MomentumScorer: composite score and signal
\* ---------------------------------------------------------------------
Get_default_zero(r, key, default) == IF key \in DOMAIN r THEN r[key] ELSE 0

\* row.get(key, default) of a pandas row: a row is a function from column
\* names to values
Get(r, key, default) == IF key \in DOMAIN r THEN r[key] ELSE default

\* the optional argument df_symbol: None, or the close column of a table
None == [given |-> FALSE, close |-> <<>>]
Table(cs) == [given |-> TRUE, close |-> cs]

velocity_score_of(df) ==
    IF df.given /\ Len(df.close) > 0
    THEN score_price_velocity(df.close, VelocityDays)
    ELSE 50 * SCALE

\* the component scores calculate_momentum_score holds before it weighs them
component_scores(r, df) ==
    LET close == Get(r, "close", 0)
    IN  [rsi_score |-> score_rsi(Get(r, "rsi_14", 50 * SCALE)),
         macd_score |-> score_macd(Get(r, "macd_12_26_9", 0), Get(r, "macd_signal_9", 0),
                                   Get(r, "macd_histogram", 0)),
         bb_score |-> score_bollinger_bands(close, Get(r, "bollinger_upper_20", close),
                                            Get(r, "bollinger_middle_20", close),
                                            Get(r, "bollinger_lower_20", close)),
         velocity_score |-> velocity_score_of(df)]

calculate_momentum_score_unclamped_sum(r, df) ==
    LET close == Get(r, "close", 0)
    IN  score_rsi(Get(r, "rsi_14", 50 * SCALE))
        + score_macd(Get(r, "macd_12_26_9", 0), Get(r, "macd_signal_9", 0),
                     Get(r, "macd_histogram", 0))
        + score_bollinger_bands(close, Get(r, "bollinger_upper_20", close),
                                Get(r, "bollinger_middle_20", close),
                                Get(r, "bollinger_lower_20", close))
        + velocity_score_of(df)

calculate_momentum_score_equal_weights(r, df) ==
    Max(0, Min(100 * SCALE, calculate_momentum_score_unclamped_sum(r, df) \div 4))

calculate_momentum_score(r, df) ==
    LET rsi == Get(r, "rsi_14", 50 * SCALE)
        macd == Get(r, "macd_12_26_9", 0)
        signal == Get(r, "macd_signal_9", 0)
        histogram == Get(r, "macd_histogram", 0)
        bb_upper == Get(r, "bollinger_upper_20", Get(r, "close", 0))
        bb_middle == Get(r, "bollinger_middle_20", Get(r, "close", 0))
        bb_lower == Get(r, "bollinger_lower_20", Get(r, "close", 0))
        close == Get(r, "close", 0)
        rsi_score == score_rsi(rsi)
        macd_score == score_macd(macd, signal, histogram)
        bb_score == score_bollinger_bands(close, bb_upper, bb_middle, bb_lower)
        velocity_score == velocity_score_of(df)
        momentum_score == (rsi_score * WeightRsi + macd_score * WeightMacd
                           + bb_score * WeightBollinger
                           + velocity_score * WeightVelocity) \div 100
    IN  IF rsi_score = Raised THEN 50 * SCALE
        ELSE Max(0, Min(100 * SCALE, momentum_score))

get_signal_open_bounds(s) ==
    IF s > 80 * SCALE THEN "STRONG BUY"
    ELSE IF s > 60 * SCALE THEN "BUY"
    ELSE IF s > 40 * SCALE THEN "NEUTRAL"
    ELSE IF s > 20 * SCALE THEN "SELL"
    ELSE "STRONG SELL"

get_signal(s) ==
    IF s >= 80 * SCALE THEN "STRONG BUY"
    ELSE IF s >= 60 * SCALE THEN "BUY"
    ELSE IF s >= 40 * SCALE THEN "NEUTRAL"
    ELSE IF s >= 20 * SCALE THEN "SELL"
    ELSE "STRONG SELL"

\* ---------------------------------------------------------------------
\* State
\* ---------------------------------------------------------------------
VARIABLES
    pc,          \* position of the caller
    row,         \* the row passed to calculate_momentum_score
    df_symbol,   \* the df_symbol argument passed with it
    score,       \* the momentum score returned, or read from a table
    label,       \* the signal returned by get_signal
    components,  \* the component scores calculate_momentum_score computed
    days,        \* the look-back passed to score_price_velocity
    velocity,    \* the score returned by score_price_velocity
    prices,      \* the close series passed to a single indicator call
    period,      \* the window passed with it
    called,      \* the indicator functions that have returned
    rsi,         \* result of calculate_rsi
    macd,        \* result of calculate_macd
    bands,       \* result of calculate_bollinger_bands
    df,          \* the table run through the pipeline: column name -> column
    latest,      \* the dictionary returned by get_latest_score
    t,           \* number of bars of the stream processed so far
    close,       \* close of the latest bar of the stream
    ema_fast,    \* fast EMA after the latest bar
    ema_slow,    \* slow EMA after the latest bar
    macd_line,   \* ema_fast - ema_slow
    signal_line, \* EMA of macd_line
    histogram,   \* macd_line - signal_line
    trend,       \* "up" or "down": direction of the stream
    last_step,   \* size of the latest per-bar step, 0 before the second bar
    switches,    \* number of times the step size changed
    shrunk,      \* some step was smaller than the step before it
    heap,        \* the table objects alive: reference -> table (a sequence of rows)
    arg,         \* reference of the table the caller passed to the latest call
    passed,      \* the rows that table held when it was passed
    result,      \* reference of the table the latest call returned, 0 before
    symbols,          \* the list passed to scan_all
    fetched,          \* what a fetch of each symbol gives: None or its data
    score_threshold,  \* the threshold passed to scan_all
    futures,          \* state of the future of each batch
    batch_result,     \* the dictionary process_batch returned for each batch
    all_results,      \* scan_all's local list of result rows
    failed_symbols,   \* self.failed_symbols of the ScannerIntegration
    df_filtered,      \* the rows scan_all returned
    polygon_client,   \* self.fetcher.polygon_client is set (FALSE: it is None)
    last_request_time, \* self.fetcher.last_request_time
    scan_symbols,     \* the list passed to StockScanner.scan
    remaining,        \* scan's set of symbols not retrieved yet
    provider_num,     \* position in self.providers of the provider tried next
    calls,            \* the fetch_data calls of this scan: provider, argument, outcome
    all_data,         \* self.all_data of the StockScanner
    provider_stats,   \* self.provider_stats
    scanner_failed,   \* self.failed_symbols of the StockScanner
    scan_result,      \* the dictionary scan returned
    now,              \* the clock, in ticks
    provider_name,    \* the provider the limiter is asked about
    call_times,       \* self.call_times[provider_name]
    last_call_time,   \* self.last_call_time[provider_name], 0 before the first call
    daily_count,      \* self.daily_count[provider_name]
    daily_reset_time, \* date of self.daily_reset_time[provider_name], -1 before it is created
    can_call_result,  \* what the latest can_call returned
    start_time,       \* start_time of wait_until_ready
    max_wait,         \* max_wait of wait_until_ready
    wait_result,      \* what wait_until_ready returned
    todo,             \* symbols fetch_data has not reached yet
    attempt,          \* loop variable of _make_request
    requests,         \* clock values at which an HTTP request was sent
    sleeps,           \* clock values at which _make_request went to sleep
    response,         \* what the latest _make_request returned
    fetched_data,     \* fetch_data's local list all_data
    minute_calls,     \* self.minute_calls[provider] of the RateLimiter
    day_calls,        \* self.day_calls[provider]
    calls_per_min,    \* the limit passed to wait_if_needed
    outcome           \* how the latest wait_if_needed ended

scorerVars == <<row, df_symbol, score, label, components, days, velocity>>
indicatorVars == <<prices, period, called, rsi, macd, bands>>
pipelineVars == <<df, latest>>
streamVars == <<t, close, ema_fast, ema_slow, macd_line, signal_line, histogram,
                trend, last_step, switches, shrunk>>
tableVars == <<heap, arg, passed, result>>
scanAllVars == <<symbols, fetched, score_threshold, futures, batch_result,
                 all_results, failed_symbols, df_filtered, polygon_client,
                 last_request_time>>
scannerVars == <<scan_symbols, remaining, provider_num, calls, all_data,
                 provider_stats, scanner_failed, scan_result>>
limiterVars == <<now, provider_name, call_times, last_call_time, daily_count,
                 daily_reset_time, can_call_result, start_time,
                 max_wait, wait_result>>
fetchVars == <<todo, attempt, requests, sleeps, response, fetched_data>>
rateVars == <<minute_calls, day_calls, calls_per_min, outcome>>
serviceVars == <<scanAllVars, scannerVars, limiterVars, fetchVars, rateVars>>
analysisVars == <<scorerVars, indicatorVars, pipelineVars, streamVars, tableVars>>
vars == <<pc, analysisVars, serviceVars>>

NoSeries == <<>>
NoMacd == [macd |-> <<>>, signal |-> <<>>, histogram |-> <<>>]
NoBands == [upper |-> <<>>, middle |-> <<>>, lower |-> <<>>]
NoLatest == [symbol |-> "none"]

NoComponents == [rsi_score |-> 0, macd_score |-> 0, bb_score |-> 0, velocity_score |-> 0]

ScorerIdle ==
    /\ row = [k \in {"close"} |-> 0]
    /\ df_symbol = None
    /\ score = 0
    /\ label = "none"
    /\ components = NoComponents
    /\ days = VelocityDays
    /\ velocity = 0

IndicatorIdle ==
    /\ prices = NoSeries
    /\ period = 1
    /\ called = {}
    /\ rsi = NoSeries
    /\ macd = NoMacd
    /\ bands = NoBands

PipelineIdle ==
    /\ df = [k \in {"close"} |-> NoSeries]
    /\ latest = NoLatest

TableIdle ==
    /\ heap = <<>>
    /\ arg = 0
    /\ passed = <<>>
    /\ result = 0

ScanAllIdle ==
    /\ symbols = <<>>
    /\ fetched = <<>>
    /\ score_threshold = 0
    /\ futures = <<>>
    /\ batch_result = <<>>
    /\ all_results = <<>>
    /\ failed_symbols = <<>>
    /\ df_filtered = <<>>
    /\ polygon_client = FALSE
    /\ last_request_time = 0

NoStats == [name \in {} |-> 0]
NoScanResult == [retrieved |-> 0, total |-> 0, coverage |-> 0, failed |-> <<>>]

ScannerIdle ==
    /\ scan_symbols = <<>>
    /\ remaining = {}
    /\ provider_num = 1
    /\ calls = <<>>
    /\ all_data = <<>>
    /\ provider_stats = NoStats
    /\ scanner_failed = <<>>
    /\ scan_result = NoScanResult

LimiterIdle ==
    /\ now = 1
    /\ provider_name = "none"
    /\ call_times = <<>>
    /\ last_call_time = 0
    /\ daily_count = 0
    /\ daily_reset_time = -1
    /\ can_call_result = FALSE
    /\ start_time = 0
    /\ max_wait = 0
    /\ wait_result = "none"

FetchIdle ==
    /\ todo = 0
    /\ attempt = 0
    /\ requests = <<>>
    /\ sleeps = <<>>
    /\ response = "none"
    /\ fetched_data = 0

RateIdle ==
    /\ minute_calls = <<>>
    /\ day_calls = 0
    /\ calls_per_min = 1
    /\ outcome = "none"

ServiceIdle == ScanAllIdle /\ ScannerIdle /\ LimiterIdle /\ FetchIdle /\ RateIdle

notScanAllVars == <<scannerVars, limiterVars, fetchVars, rateVars>>
notScannerVars == <<scanAllVars, limiterVars, fetchVars, rateVars>>
notLimiterVars == <<scanAllVars, scannerVars, rateVars>>
notRateVars == <<scanAllVars, scannerVars, fetchVars>>

StreamIdle ==
    /\ t = 0
    /\ close = 0
    /\ ema_fast = 0
    /\ ema_slow = 0
    /\ macd_line = 0
    /\ signal_line = 0
    /\ histogram = 0
    /\ trend = "none"
    /\ last_step = 0
    /\ switches = 0
    /\ shrunk = FALSE

AnalysisIdle ==
    ScorerIdle /\ IndicatorIdle /\ PipelineIdle /\ TableIdle /\ StreamIdle

\* ---------------------------------------------------------------------
\* Scorer: calculate_momentum_score and get_signal on arbitrary rows
\* ---------------------------------------------------------------------
Offsets == (-MaxRow) .. MaxRow

RsiInputs == {b * SCALE + o * 333 : b \in {-90, 0, 30, 50, 70, 100, 250}, o \in Offsets}
HistInputs == {b * SCALE + o * 400 : b \in {-2, 0, 2}, o \in Offsets}
CloseInputs == {100 * SCALE + o * 4 * SCALE : o \in {-1, 0, 1}}
LowerInputs == {100 * SCALE + o * 3 * SCALE : o \in {-1, 0}}
UpperInputs == {100 * SCALE + o * 3 * SCALE : o \in {-1, 0, 1}}

RowOf(r, h, c, u, l) ==
    [k \in {"close", "rsi_14", "macd_12_26_9", "macd_signal_9", "macd_histogram",
            "bollinger_upper_20", "bollinger_middle_20", "bollinger_lower_20"} |->
        CASE k = "close" -> c
          [] k = "rsi_14" -> r
          [] k = "macd_12_26_9" -> h
          [] k = "macd_signal_9" -> 0
          [] k = "macd_histogram" -> h
          [] k = "bollinger_upper_20" -> u
          [] k = "bollinger_middle_20" -> (u + l) \div 2
          [] k = "bollinger_lower_20" -> l]

RowInputs == {RowOf(r, h, c, u, l) : r \in RsiInputs, h \in HistInputs,
              c \in CloseInputs, u \in UpperInputs, l \in LowerInputs}

\* price histories: none, empty, too short, and VelocityDays + 1 bars whose
\* first close is zero, negative or positive
History(past, last) == <<past>> \o [i \in 1 .. (VelocityDays - 1) |-> 100 * SCALE] \o <<last>>

DfInputs ==
    {None, Table(<<>>), Table(<<100 * SCALE, 110 * SCALE>>)}
    \cup {Table(History(0, 100 * SCALE)), Table(History(-100 * SCALE, 100 * SCALE))}
    \cup {Table(History(100 * SCALE, 100 * SCALE + o * 3 * SCALE)) : o \in {-4, -1, 0, 1, 4}}

\* histories for score_price_velocity alone: VelocityDays + 1 bars ending in
\* a rise or fall of 0, 3, 5, 12, 25 or 130 per cent of the filler close, after a
\* positive, zero or negative first close; read with a look-back of one bar,
\* of VelocityDays bars, or of one bar more than the history holds
HistoryInputs ==
    {History(past * SCALE, 100 * SCALE + o * SCALE) :
        past \in {-100, 0, 100},
        o \in {-25, -12, -5, -3, 0, 3, 5, 12, 25, 130}}

DaysInputs == {1, VelocityDays, VelocityDays + 1}

\* rows that lack indicator fields or hold a value that is not a number
BaseRows == {RowOf(r * SCALE, h * SCALE, 99 * SCALE, 103 * SCALE, 97 * SCALE) :
                r \in {20, 75}, h \in {-1, 1}}

Lacking(r, missing) == [k \in DOMAIN r \ missing |-> r[k]]

PartialRowInputs ==
    LET lacking == {Lacking(r, missing) :
                       r \in BaseRows, missing \in SUBSET (DOMAIN RowOf(0, 0, 0, 0, 0) \ {"close"})}
    IN  lacking \cup UNION {{[r EXCEPT ![k] = Unparseable] : k \in DOMAIN r} : r \in lacking}

ScoreInputs == {b * SCALE + o : b \in {-50, 0, 20, 40, 60, 80, 100, 150}, o \in Offsets}

InitScorer ==
    /\ \/ /\ pc = "row"
          /\ row \in RowInputs
          /\ df_symbol \in DfInputs
          /\ score = 0
          /\ days = VelocityDays
       \/ /\ pc = "partial_row"
          /\ row \in PartialRowInputs
          /\ df_symbol \in {None, Table(History(100 * SCALE, 112 * SCALE))}
          /\ score = 0
          /\ days = VelocityDays
       \/ /\ pc = "table_score"
          /\ row = RowOf(50 * SCALE, 0, 0, 0, 0)
          /\ df_symbol = None
          /\ score \in ScoreInputs
          /\ days = VelocityDays
       \/ /\ pc = "history"
          /\ row = RowOf(50 * SCALE, 0, 0, 0, 0)
          /\ df_symbol \in {Table(h) : h \in HistoryInputs}
          /\ score = 0
          /\ days \in DaysInputs
    /\ label = "none"
    /\ components = NoComponents
    /\ velocity = 0
    /\ IndicatorIdle /\ PipelineIdle /\ StreamIdle /\ TableIdle /\ ServiceIdle

\* score = MomentumScorer.calculate_momentum_score(row, df_symbol)
CalculateMomentumScore ==
    /\ pc \in {"row", "partial_row"}
    /\ score' = calculate_momentum_score(row, df_symbol)
    /\ components' = component_scores(row, df_symbol)
    /\ pc' = IF pc = "row" THEN "scored" ELSE "scored_partial"
    /\ UNCHANGED <<row, df_symbol, label, days, velocity,
                   indicatorVars, pipelineVars, streamVars, tableVars, serviceVars>>

\* velocity = MomentumScorer.score_price_velocity(df_symbol, days)
ScorePriceVelocity ==
    /\ pc = "history"
    /\ velocity' = score_price_velocity(df_symbol.close, days)
    /\ pc' = "velocity"
    /\ UNCHANGED <<row, df_symbol, score, label, components, days,
                   indicatorVars, pipelineVars, streamVars, tableVars, serviceVars>>

\* label = MomentumScorer.get_signal(score)
GetSignal ==
    /\ pc \in {"scored", "table_score"}
    /\ label' = get_signal(score)
    /\ pc' = "labelled"
    /\ UNCHANGED <<row, df_symbol, score, components, days, velocity,
                   indicatorVars, pipelineVars, streamVars, tableVars, serviceVars>>

NextScorer == CalculateMomentumScore \/ ScorePriceVelocity \/ GetSignal

ScorerSpec == InitScorer /\ [][NextScorer]_vars

\* ---------------------------------------------------------------------
\* Indicators: calculate_rsi, calculate_macd and calculate_bollinger_bands
\* called on arbitrary short series with small windows, and on the longer
\* tables of the pipeline with the default windows
\* ---------------------------------------------------------------------
Tick == SCALE \div 2
StartPrice == 100 * SCALE
StepInputs == {-2 * Tick, -Tick, 0, Tick, 2 * Tick}

\* the close series that starts at StartPrice and moves by steps[i] at bar i + 1
RECURSIVE SeriesFrom(_, _)
SeriesFrom(steps, acc) ==
    IF Len(acc) = Len(steps) + 1 THEN acc
    ELSE SeriesFrom(steps, Append(acc, acc[Len(acc)] + steps[Len(acc)]))

SeriesInputs ==
    {NoSeries} \cup
    UNION {{SeriesFrom(steps, <<StartPrice>>) : steps \in [1 .. n -> StepInputs]} :
           n \in 0 .. (MaxLen - 1)}

\* tables: n bars that start at 100 or 101 and move by one step per bar, the
\* step changing once after bar k (k = n: the same step throughout)
PipelineSteps == {-2 * Tick, -Tick, 0, Tick, 2 * Tick}
PipelineStarts == {100 * SCALE, 101 * SCALE}

TwoSegments(start, n, k, s1, s2) ==
    [i \in 1 .. n |-> IF i <= k THEN start + (i - 1) * s1
                      ELSE start + (k - 1) * s1 + (i - k) * s2]

PipelineInputs ==
    {TwoSegments(start, n, n, s1, s1) :
        start \in PipelineStarts, n \in 1 .. MaxBars, s1 \in PipelineSteps}
    \cup
    {TwoSegments(start, MaxBars, k, s1, s2) :
        start \in PipelineStarts, k \in {MaxBars - 8, MaxBars - 3},
        s1 \in PipelineSteps, s2 \in PipelineSteps}

InitIndicators ==
    /\ pc = "call"
    /\ \/ /\ prices \in SeriesInputs
          /\ period \in 1 .. MaxPeriod
       \/ /\ prices \in PipelineInputs
          /\ period \in {RsiPeriod, BollingerPeriod}
    /\ called = {}
    /\ rsi = NoSeries
    /\ macd = NoMacd
    /\ bands = NoBands
    /\ ScorerIdle /\ PipelineIdle /\ StreamIdle /\ TableIdle /\ ServiceIdle

\* rsi = TechnicalIndicators.calculate_rsi(prices, period)
CalculateRsi ==
    /\ pc = "call"
    /\ "rsi" \notin called
    /\ rsi' = calculate_rsi(prices, period)
    /\ called' = called \cup {"rsi"}
    /\ UNCHANGED <<pc, prices, period, macd, bands, scorerVars, pipelineVars, streamVars, tableVars, serviceVars>>

\* macd = TechnicalIndicators.calculate_macd(prices)
CalculateMacd ==
    /\ pc = "call"
    /\ "macd" \notin called
    /\ macd' = calculate_macd(prices, MacdFast, MacdSlow, MacdSignal)
    /\ called' = called \cup {"macd"}
    /\ UNCHANGED <<pc, prices, period, rsi, bands, scorerVars, pipelineVars, streamVars, tableVars, serviceVars>>

\* bands = TechnicalIndicators.calculate_bollinger_bands(prices, period)
CalculateBollingerBands ==
    /\ pc = "call"
    /\ "bollinger" \notin called
    /\ bands' = calculate_bollinger_bands(prices, period, BollingerStdDev * SCALE)
    /\ called' = called \cup {"bollinger"}
    /\ UNCHANGED <<pc, prices, period, rsi, macd, scorerVars, pipelineVars, streamVars, tableVars, serviceVars>>

NextIndicators == CalculateRsi \/ CalculateMacd \/ CalculateBollingerBands

IndicatorSpec == InitIndicators /\ [][NextIndicators]_vars

\* ---------------------------------------------------------------------
\* Pipeline: add_indicators_to_dataframe, add_momentum_scores and
\* get_latest_score on the table of one symbol, rows in timestamp order
\* ---------------------------------------------------------------------
IndicatorColumns == {"rsi_14", "macd_12_26_9", "macd_signal_9", "macd_histogram",
                     "bollinger_upper_20", "bollinger_middle_20", "bollinger_lower_20"}

add_indicators_to_dataframe(d) ==
    LET r == calculate_rsi(d["close"], RsiPeriod)
        m == calculate_macd(d["close"], MacdFast, MacdSlow, MacdSignal)
        b == calculate_bollinger_bands(d["close"], BollingerPeriod, BollingerStdDev * SCALE)
    IN  [k \in DOMAIN d \cup IndicatorColumns |->
            CASE k = "rsi_14" -> r
              [] k = "macd_12_26_9" -> m.macd
              [] k = "macd_signal_9" -> m.signal
              [] k = "macd_histogram" -> m.histogram
              [] k = "bollinger_upper_20" -> b.upper
              [] k = "bollinger_middle_20" -> b.middle
              [] k = "bollinger_lower_20" -> b.lower
              [] OTHER -> d[k]]

\* one row of a table
RowAt(d, i) == [k \in DOMAIN d |-> d[k][i]]

\* every row is scored with the whole table of its symbol as df_symbol
add_momentum_scores(d) ==
    LET scores == [i \in 1 .. Len(d["close"]) |->
                      calculate_momentum_score(RowAt(d, i), Table(d["close"]))]
    IN  [k \in DOMAIN d \cup {"momentum_score"} |->
            IF k = "momentum_score" THEN scores ELSE d[k]]

get_latest_score(d) ==
    LET n == Len(d["close"])
        last == RowAt(d, n)
        s == Get(last, "momentum_score", 50 * SCALE)
    IN  [symbol |-> "TEST",
         close |-> Get(last, "close", 0),
         momentum_score |-> s,
         signal |-> get_signal(s),
         rsi_14 |-> Get(last, "rsi_14", 50 * SCALE),
         macd |-> Get(last, "macd_12_26_9", 0),
         bb_upper |-> Get(last, "bollinger_upper_20", 0)]

Init ==
    /\ pc = "loaded"
    /\ df \in {[k \in {"close"} |-> cs] : cs \in PipelineInputs}
    /\ latest = NoLatest
    /\ ScorerIdle /\ IndicatorIdle /\ StreamIdle /\ TableIdle /\ ServiceIdle

\* df = TechnicalIndicators.add_indicators_to_dataframe(df)
AddIndicators ==
    /\ pc = "loaded"
    /\ df' = add_indicators_to_dataframe(df)
    /\ pc' = "with_indicators"
    /\ UNCHANGED <<latest, scorerVars, indicatorVars, streamVars, tableVars, serviceVars>>

\* df = MomentumScorer.add_momentum_scores(df)
AddMomentumScores ==
    /\ pc = "with_indicators"
    /\ df' = add_momentum_scores(df)
    /\ pc' = "with_scores"
    /\ UNCHANGED <<latest, scorerVars, indicatorVars, streamVars, tableVars, serviceVars>>

\* latest = MomentumScorer.get_latest_score(df, symbol)
GetLatestScore ==
    /\ pc = "with_scores"
    /\ latest' = get_latest_score(df)
    /\ pc' = "reported"
    /\ UNCHANGED <<df, scorerVars, indicatorVars, streamVars, tableVars, serviceVars>>

Next == AddIndicators \/ AddMomentumScores \/ GetLatestScore

Spec == Init /\ [][Next]_vars

\* ---------------------------------------------------------------------
\* Stream: the EMA recurrences of calculate_macd applied bar by bar to a
\* close sequence that only rises or only falls
\* ---------------------------------------------------------------------
StreamStart == 500 * SCALE
SmallStep == Tick
BigStep == 10 * SCALE
StreamSteps == {SmallStep, BigStep}

InitStream ==
    /\ pc = "stream"
    /\ t = 1
    /\ close = StreamStart
    /\ ema_fast = StreamStart
    /\ ema_slow = StreamStart
    /\ macd_line = 0
    /\ signal_line = 0
    /\ histogram = 0
    /\ trend \in {"up", "down"}
    /\ last_step = 0
    /\ switches = 0
    /\ shrunk = FALSE
    /\ ScorerIdle /\ IndicatorIdle /\ PipelineIdle /\ TableIdle /\ ServiceIdle

\* the next bar closes `step` above (trend up) or below (trend down) the last
NextBar(step) ==
    LET c == IF trend = "up" THEN close + step ELSE close - step
        f == ema_step(ema_fast, c, MacdFast)
        s == ema_step(ema_slow, c, MacdSlow)
        m == f - s
        g == ema_step(signal_line, m, MacdSignal)
        changed == last_step # 0 /\ step # last_step
    IN  /\ pc = "stream"
        /\ t < MaxBars
        /\ changed => switches < MaxSwitches
        /\ t' = t + 1
        /\ close' = c
        /\ ema_fast' = f
        /\ ema_slow' = s
        /\ macd_line' = m
        /\ signal_line' = g
        /\ histogram' = m - g
        /\ last_step' = step
        /\ switches' = IF changed THEN switches + 1 ELSE switches
        /\ shrunk' = (shrunk \/ (last_step # 0 /\ step < last_step))
        /\ UNCHANGED <<pc, trend, scorerVars, indicatorVars, pipelineVars, tableVars, serviceVars>>

\* the series is exhausted and calculate_macd returns
EndOfSeries ==
    /\ pc = "stream"
    /\ pc' = "returned"
    /\ UNCHANGED <<scorerVars, indicatorVars, pipelineVars, streamVars, tableVars, serviceVars>>

NextStream == (\E step \in StreamSteps : NextBar(step)) \/ EndOfSeries

MacdSpec == InitStream /\ [][NextStream]_vars /\ WF_vars(NextStream)

\* ---------------------------------------------------------------------
\* Tables of several symbols, rows in any order, passed by reference:
\* add_indicators_to_dataframe (the branch for a 'symbol' column) and
\* add_momentum_scores
\* ---------------------------------------------------------------------
Range(f) == {f[i] : i \in DOMAIN f}

\* df['symbol'].unique(): the symbols in order of first appearance
RECURSIVE unique(_)
unique(column) ==
    IF column = <<>> THEN <<>>
    ELSE LET rest == unique(SubSeq(column, 1, Len(column) - 1))
             last == column[Len(column)]
         IN  IF last \in Range(rest) THEN rest ELSE Append(rest, last)

SymbolColumn(tbl) == [i \in 1 .. Len(tbl) |-> tbl[i].symbol]

\* 'symbol' in df.columns
HasSymbolColumn(tbl) == \A i \in DOMAIN tbl : "symbol" \in DOMAIN tbl[i]

\* mask = df['symbol'] == symbol: the positions of the symbol's rows, in
\* table order
MaskRows(tbl, symbol) == SelectSeq([i \in 1 .. Len(tbl) |-> i], LAMBDA i : tbl[i].symbol = symbol)

\* df[mask].sort_values('timestamp'): the same positions, oldest bar first
sort_values(tbl, idx) ==
    [j \in 1 .. Len(idx) |->
        CHOOSE i \in Range(idx) :
            Cardinality({m \in Range(idx) : tbl[m].timestamp < tbl[i].timestamp}) = j - 1]

\* df.loc[mask, columns] = values: the k-th row of the mask takes the k-th
\* value; a column that is new holds NaN on the rows outside the mask
loc_assign(tbl, idx, columns, values) ==
    [i \in 1 .. Len(tbl) |->
        [k \in DOMAIN tbl[i] \cup columns |->
            IF k \in columns /\ i \in Range(idx)
            THEN values[CHOOSE j \in DOMAIN idx : idx[j] = i][k]
            ELSE IF k \in DOMAIN tbl[i] THEN tbl[i][k] ELSE NaN]]

\* the three indicator calls on one symbol's closes, as one value per bar
IndicatorsOf(closes) ==
    LET r == calculate_rsi(closes, RsiPeriod)
        m == calculate_macd(closes, MacdFast, MacdSlow, MacdSignal)
        b == calculate_bollinger_bands(closes, BollingerPeriod, BollingerStdDev * SCALE)
    IN  [j \in 1 .. Len(closes) |->
            [k \in IndicatorColumns |->
                CASE k = "rsi_14" -> r[j]
                  [] k = "macd_12_26_9" -> m.macd[j]
                  [] k = "macd_signal_9" -> m.signal[j]
                  [] k = "macd_histogram" -> m.histogram[j]
                  [] k = "bollinger_upper_20" -> b.upper[j]
                  [] k = "bollinger_middle_20" -> b.middle[j]
                  [] k = "bollinger_lower_20" -> b.lower[j]]]

\* calculate_rsi on closes that are not all numbers: prices.diff() raises,
\* and the except branch raises TypeError itself at pd.Series( * len(prices))
IndicatorCallRaises(closes) == \E j \in DOMAIN closes : closes[j] = Unparseable

\* the loop over the symbols; an exception leaves it with the table as the
\* symbols before it left it
RECURSIVE add_indicators_loop(_, _)
add_indicators_loop(tbl, syms) ==
    IF syms = <<>> THEN tbl
    ELSE LET mask == MaskRows(tbl, Head(syms))
             symbol_data == sort_values(tbl, mask)
             closes == [j \in 1 .. Len(symbol_data) |-> tbl[symbol_data[j]].close]
         IN  IF IndicatorCallRaises(closes) THEN tbl
             ELSE add_indicators_loop(loc_assign(tbl, mask, IndicatorColumns, IndicatorsOf(closes)),
                                      Tail(syms))

df_copy_alias(h, ref) == [heap |-> h, ref |-> ref]

\* df = df.copy(): a new table object with the same rows
df_copy(h, ref) == [heap |-> Append(h, h[ref]), ref |-> Len(h) + 1]

\* the branch for a table without a symbol column: one series, in row order
add_indicators_single_symbol(tbl) ==
    LET closes == [i \in 1 .. Len(tbl) |-> tbl[i].close]
    IN  IF IndicatorCallRaises(closes) THEN tbl
        ELSE loc_assign(tbl, [i \in 1 .. Len(tbl) |-> i], IndicatorColumns, IndicatorsOf(closes))

add_indicators_to_table_cached(h, ref) ==
    LET c == df_copy(h, IF Len(h) > 1 THEN Len(h) ELSE ref)
        tbl == c.heap[c.ref]
    IN  IF Len(h) > 1 THEN c
        ELSE [heap |-> [c.heap EXCEPT ![c.ref] =
                           IF HasSymbolColumn(tbl)
                           THEN add_indicators_loop(tbl, unique(SymbolColumn(tbl)))
                           ELSE add_indicators_single_symbol(tbl)],
              ref |-> c.ref]

add_indicators_to_table(h, ref) ==
    LET c == df_copy(h, ref)
        tbl == c.heap[c.ref]
    IN  [heap |-> [c.heap EXCEPT ![c.ref] =
                      IF HasSymbolColumn(tbl)
                      THEN add_indicators_loop(tbl, unique(SymbolColumn(tbl)))
                      ELSE add_indicators_single_symbol(tbl)],
         ref |-> c.ref]

RECURSIVE add_momentum_scores_loop(_, _)
add_momentum_scores_loop(tbl, syms) ==
    IF syms = <<>> THEN tbl
    ELSE LET mask == MaskRows(tbl, Head(syms))
             symbol_data == sort_values(tbl, mask)
             closes == [j \in 1 .. Len(symbol_data) |-> tbl[symbol_data[j]].close]
             scores == [j \in 1 .. Len(symbol_data) |->
                           [k \in {"momentum_score"} |->
                               calculate_momentum_score(tbl[symbol_data[j]], Table(closes))]]
         IN  add_momentum_scores_loop(loc_assign(tbl, mask, {"momentum_score"}, scores),
                                      Tail(syms))

\* df['symbol'] raises KeyError on a table without that column, and the
\* copy is returned with the default score in every row
add_momentum_scores_to_table(h, ref) ==
    LET c == df_copy(h, ref)
        tbl == [i \in 1 .. Len(c.heap[c.ref]) |->
                   [k \in DOMAIN c.heap[c.ref][i] \cup {"momentum_score"} |->
                       IF k = "momentum_score" THEN 50 * SCALE ELSE c.heap[c.ref][i][k]]]
    IN  [heap |-> [c.heap EXCEPT ![c.ref] =
                      IF HasSymbolColumn(tbl)
                      THEN add_momentum_scores_loop(tbl, unique(SymbolColumn(tbl)))
                      ELSE tbl],
         ref |-> c.ref]

TableSymbols == {"A", "B"}
TableTimestamps == {1, 2, 3}
TableCloses == {100 * SCALE, 110 * SCALE, Unparseable}
TableRows == [symbol : TableSymbols, timestamp : TableTimestamps, close : TableCloses]
RowsWithoutSymbol == [timestamp : TableTimestamps, close : TableCloses]

\* a symbol has one bar per timestamp
DistinctBars(tbl) ==
    \A i, j \in DOMAIN tbl :
        (tbl[i].timestamp = tbl[j].timestamp
           /\ (HasSymbolColumn(tbl) => tbl[i].symbol = tbl[j].symbol)) => i = j

TableInputs ==
    {tbl \in UNION {[1 .. n -> TableRows] \cup [1 .. n -> RowsWithoutSymbol] : n \in 0 .. MaxTableRows} :
        DistinctBars(tbl)}

InitTable ==
    /\ pc = "table"
    /\ heap \in {<<tbl>> : tbl \in TableInputs}
    /\ arg = 1
    /\ passed = <<>>
    /\ result = 0
    /\ ScorerIdle /\ IndicatorIdle /\ PipelineIdle /\ StreamIdle /\ ServiceIdle

\* result = TechnicalIndicators.add_indicators_to_dataframe(table), on the
\* caller's table, the first time and once more after it was scored
AddIndicatorsToTable ==
    /\ pc \in {"table", "table_scores"}
    /\ arg' = 1
    /\ passed' = heap[1]
    /\ LET returned == add_indicators_to_table(heap, 1)
       IN  heap' = returned.heap /\ result' = returned.ref
    /\ pc' = IF pc = "table" THEN "table_indicators" ELSE "again_indicators"
    /\ UNCHANGED <<scorerVars, indicatorVars, pipelineVars, streamVars, serviceVars>>

\* result = MomentumScorer.add_momentum_scores(result)
AddMomentumScoresToTable ==
    /\ pc \in {"table_indicators", "again_indicators"}
    /\ arg' = result
    /\ passed' = heap[result]
    /\ LET returned == add_momentum_scores_to_table(heap, result)
       IN  heap' = returned.heap /\ result' = returned.ref
    /\ pc' = IF pc = "table_indicators" THEN "table_scores" ELSE "rescored"
    /\ UNCHANGED <<scorerVars, indicatorVars, pipelineVars, streamVars, serviceVars>>

\* another table goes through both functions between the two passes over
\* the caller's table
OtherTables ==
    {<<[symbol |-> "B", timestamp |-> 1, close |-> 90 * SCALE],
       [symbol |-> "B", timestamp |-> 2, close |-> 95 * SCALE]>>}

OtherCalls ==
    /\ pc = "table_scores"
    /\ result = Len(heap)
    /\ \E other \in OtherTables :
          LET with_indicators == add_indicators_to_table(Append(heap, other), Len(heap) + 1)
              with_scores == add_momentum_scores_to_table(with_indicators.heap, with_indicators.ref)
          IN  heap' = with_scores.heap
    /\ UNCHANGED <<pc, arg, passed, result, scorerVars, indicatorVars, pipelineVars, streamVars, serviceVars>>

NextTable == AddIndicatorsToTable \/ AddMomentumScoresToTable \/ OtherCalls

TableSpec == InitTable /\ [][NextTable]_vars

\* ---------------------------------------------------------------------
\* ScannerIntegration.scan_all: the batches of a symbol list processed by
\* a pool of worker threads, their results collected by the caller
\* ---------------------------------------------------------------------
BatchSize == 2                 \* self.batch_size
MaxSymbols == BatchSize + 1    \* longest list passed to scan_all
MaxWorkers == 2                \* self.max_workers

\* fetch_with_fallback returned None for the symbol
NoData == Raised + 1

ScanSymbols == {"A", "B", "C"}

\* What the fetch of a symbol gives: no data, data on which get_latest_score
\* raises (a close that float() rejects), or data whose latest bar gets
\* the given momentum score
FetchOutcomes == {NoData, Unparseable, 45 * SCALE, 60 * SCALE, 75 * SCALE}

Thresholds == {50 * SCALE, 60 * SCALE}

SymbolLists == UNION {[1 .. n -> ScanSymbols] : n \in 0 .. MaxSymbols}

NoBatchResult == [results |-> <<>>, failures |-> <<>>]

\* create_batches: slices of batch_size symbols, the last one shorter
create_batches(syms) ==
    [b \in 1 .. ((Len(syms) + BatchSize - 1) \div BatchSize) |->
        SubSeq(syms, (b - 1) * BatchSize + 1, Min(b * BatchSize, Len(syms)))]

\* QuoteFetcher.fetch_batch: the keys of the dictionary it returns, in
\* insertion order; a symbol without data gets no key
fetch_batch(batch, data) == unique(SelectSeq(batch, LAMBDA s : data[s] # NoData))

\* fetch_polygon runs _respect_rate_limit only when a client is configured
FallbackTouchesFetcher(batch, data) ==
    polygon_client /\ \E i \in DOMAIN batch : data[batch[i]] = NoData

\* the loop of process_batch over data_dict.keys()
RECURSIVE results_loop(_, _, _)
results_loop(keys, data, acc) ==
    IF keys = <<>> THEN acc
    ELSE LET symbol == Head(keys)
         IN  results_loop(Tail(keys), data,
                IF data[symbol] = Unparseable
                THEN [acc EXCEPT !.failures = Append(@, symbol)]
                ELSE [acc EXCEPT !.results =
                        Append(@, [symbol |-> symbol, momentum_score |-> data[symbol]])])

\* process_batch(symbols): fetch_batch, add_indicators_to_dataframe and
\* add_momentum_scores handle their own exceptions
process_batch(batch, data) ==
    LET data_dict == fetch_batch(batch, data)
    IN  IF data_dict = <<>> THEN [results |-> <<>>, failures |-> batch]
        ELSE results_loop(data_dict, data, NoBatchResult)

\* df_results[df_results['momentum_score'] >= score_threshold]
filter_by_score(rows, threshold) ==
    SelectSeq(rows, LAMBDA r : r.momentum_score >= threshold)

RECURSIVE sort_by_score_ascending(_)
sort_by_score_ascending(rows) ==
    IF rows = <<>> THEN <<>>
    ELSE LET rest == sort_by_score_ascending(SubSeq(rows, 1, Len(rows) - 1))
             last == rows[Len(rows)]
             before == SelectSeq(rest, LAMBDA r : r.momentum_score <= last.momentum_score)
             after == SelectSeq(rest, LAMBDA r : r.momentum_score > last.momentum_score)
         IN  before \o <<last>> \o after

\* sort_values('momentum_score', ascending=False); rows of equal score are
\* kept in the order they had
RECURSIVE sort_by_score(_)
sort_by_score(rows) ==
    IF rows = <<>> THEN <<>>
    ELSE LET rest == sort_by_score(SubSeq(rows, 1, Len(rows) - 1))
             last == rows[Len(rows)]
             before == SelectSeq(rest, LAMBDA r : r.momentum_score >= last.momentum_score)
             after == SelectSeq(rest, LAMBDA r : r.momentum_score < last.momentum_score)
         IN  before \o <<last>> \o after

Running == {b \in DOMAIN futures : futures[b] = "running"}

InitScanAll ==
    /\ pc = "scan_all"
    /\ symbols \in SymbolLists
    /\ fetched \in [ScanSymbols -> FetchOutcomes]
    /\ score_threshold \in Thresholds
    /\ futures = <<>>
    /\ batch_result = <<>>
    /\ all_results = <<>>
    /\ failed_symbols = <<>>
    /\ df_filtered = <<>>
    /\ polygon_client = FALSE
    /\ last_request_time = 0
    /\ AnalysisIdle
    /\ ScannerIdle /\ LimiterIdle /\ FetchIdle /\ RateIdle

\* futures = {executor.submit(self.process_batch, batch, days): i ...}
Submit ==
    /\ pc = "scan_all"
    /\ futures' = [b \in DOMAIN create_batches(symbols) |-> "pending"]
    /\ batch_result' = [b \in DOMAIN create_batches(symbols) |-> NoBatchResult]
    /\ all_results' = <<>>
    /\ pc' = "collecting"
    /\ UNCHANGED <<symbols, fetched, score_threshold, failed_symbols, df_filtered,
                   polygon_client, last_request_time, analysisVars, notScanAllVars>>

\* a free worker takes the oldest batch waiting in the executor's queue and
\* fetches its symbols
StartBatch(b) ==
    /\ pc = "collecting"
    /\ futures[b] = "pending"
    /\ \A earlier \in 1 .. (b - 1) : futures[earlier] # "pending"
    /\ Cardinality(Running) < MaxWorkers
    /\ futures' = [futures EXCEPT ![b] = "running"]
    /\ last_request_time' =
          IF FallbackTouchesFetcher(create_batches(symbols)[b], fetched)
          THEN last_request_time + 1 ELSE last_request_time
    /\ UNCHANGED <<pc, symbols, fetched, score_threshold, batch_result, all_results,
                   failed_symbols, df_filtered, polygon_client, analysisVars, notScanAllVars>>

\* the worker returns the dictionary of its batch
FinishBatch(b) ==
    /\ pc = "collecting"
    /\ futures[b] = "running"
    /\ futures' = [futures EXCEPT ![b] = "done"]
    /\ batch_result' = [batch_result EXCEPT ![b] = process_batch(create_batches(symbols)[b], fetched)]
    /\ UNCHANGED <<pc, symbols, fetched, score_threshold, all_results, failed_symbols,
                   df_filtered, polygon_client, last_request_time, analysisVars, notScanAllVars>>

\* for future in as_completed(futures): the caller takes a finished batch
Collect(b) ==
    /\ pc = "collecting"
    /\ futures[b] = "done"
    /\ futures' = [futures EXCEPT ![b] = "collected"]
    /\ all_results' = all_results \o batch_result[b].results
    /\ failed_symbols' = failed_symbols \o batch_result[b].failures
    /\ UNCHANGED <<pc, symbols, fetched, score_threshold, batch_result, df_filtered,
                   polygon_client, last_request_time, analysisVars, notScanAllVars>>

\* after the loop: filter by score and sort, or an empty frame
ReturnScan ==
    /\ pc = "collecting"
    /\ \A b \in DOMAIN futures : futures[b] = "collected"
    /\ df_filtered' = IF all_results = <<>> THEN <<>>
                      ELSE sort_by_score(filter_by_score(all_results, score_threshold))
    /\ pc' = "scan_returned"
    /\ UNCHANGED <<symbols, fetched, score_threshold, futures, batch_result, all_results,
                   failed_symbols, polygon_client, last_request_time, analysisVars, notScanAllVars>>

WorkerStep == \E b \in DOMAIN futures : StartBatch(b) \/ FinishBatch(b)

NextScanAll ==
    \/ Submit
    \/ \E b \in DOMAIN futures : StartBatch(b)
    \/ \E b \in DOMAIN futures : FinishBatch(b)
    \/ \E b \in DOMAIN futures : Collect(b)
    \/ ReturnScan

ScanAllSpec == InitScanAll /\ [][NextScanAll]_vars

\* ---------------------------------------------------------------------
\* StockScanner.scan: the providers tried in priority order for the
\* symbols still missing
\* ---------------------------------------------------------------------
MaxRequested == 2   \* longest list passed to scan

\* self.providers, by name
Providers == <<"Marketstack", "Finnhub", "Twelve Data", "FMP", "Tiingo",
               "Polygon", "Alpha Vantage">>

Tickers == {"AAPL", "MSFT"}

TickerLists == UNION {[1 .. n -> Tickers] : n \in 0 .. MaxRequested}

\* What fetch_data followed by normalize_data gives: an exception, or items
\* for a set of symbols (one item per symbol)
ProviderOutcomes ==
    {[raises |-> TRUE, symbols |-> {}]}
    \cup {[raises |-> FALSE, symbols |-> S] : S \in SUBSET Tickers}

\* list(a_set): the members in some order
RECURSIVE SetToSeq(_)
SetToSeq(S) ==
    IF S = {} THEN <<>>
    ELSE LET x == CHOOSE y \in S : TRUE
         IN  <<x>> \o SetToSeq(S \ {x})

\* f"{coverage:.1f}%" of (retrieved / total * 100), in tenths of a percent
format_coverage(retrieved, total) ==
    IF total = 0 THEN 0
    ELSE (2 * 1000 * retrieved + total) \div (2 * total)

subtract_retrieved_none(rem, retrieved) == rem

\* remaining -= retrieved
subtract_retrieved(rem, retrieved) == rem \ retrieved

InitScanner ==
    /\ pc = "scanner"
    /\ scan_symbols = <<>>
    /\ remaining = {}
    /\ provider_num = 1
    /\ calls = <<>>
    /\ all_data = <<>>
    /\ provider_stats = NoStats
    /\ scanner_failed = <<>>
    /\ scan_result = NoScanResult
    /\ AnalysisIdle
    /\ ScanAllIdle /\ LimiterIdle /\ FetchIdle /\ RateIdle

\* scan(symbols) up to the loop: remaining = set(symbols)
StartScan ==
    /\ pc = "scanner"
    /\ \E list \in TickerLists : scan_symbols' = list /\ remaining' = Range(list)
    /\ provider_num' = 1
    /\ calls' = <<>>
    /\ pc' = "scanning"
    /\ UNCHANGED <<all_data, provider_stats, scanner_failed, scan_result,
                   analysisVars, notScannerVars>>

\* one iteration of the loop over self.providers
TryProvider ==
    /\ pc = "scanning"
    /\ provider_num <= Len(Providers)
    /\ remaining # {}
    /\ \E got \in ProviderOutcomes :
          /\ calls' = Append(calls, [provider |-> Providers[provider_num],
                                     asked |-> remaining,
                                     raises |-> got.raises,
                                     retrieved |-> got.symbols])
          /\ IF got.raises
             THEN /\ provider_stats' =
                        [name \in DOMAIN provider_stats \cup {Providers[provider_num]} |->
                            IF name = Providers[provider_num] THEN 0 ELSE provider_stats[name]]
                  /\ UNCHANGED <<all_data, remaining>>
             ELSE /\ all_data' = all_data \o SetToSeq(got.symbols)
                  /\ provider_stats' =
                        [name \in DOMAIN provider_stats \cup {Providers[provider_num]} |->
                            IF name = Providers[provider_num]
                            THEN Cardinality(got.symbols) ELSE provider_stats[name]]
                  /\ remaining' = subtract_retrieved(remaining, got.symbols)
    /\ provider_num' = provider_num + 1
    /\ UNCHANGED <<pc, scan_symbols, scanner_failed, scan_result,
                   analysisVars, notScannerVars>>

\* after the loop (left by the break or at its end): failed_symbols, the
\* statistics and the returned dictionary
FinishScan ==
    /\ pc = "scanning"
    /\ provider_num > Len(Providers) \/ remaining = {}
    /\ scanner_failed' = SetToSeq(remaining)
    /\ scan_result' = [retrieved |-> Len(scan_symbols) - Cardinality(remaining),
                       total |-> Len(scan_symbols),
                       coverage |-> format_coverage(Len(scan_symbols) - Cardinality(remaining),
                                                    Len(scan_symbols)),
                       failed |-> SetToSeq(remaining)]
    /\ pc' = "scan_returned_stats"
    /\ UNCHANGED <<scan_symbols, remaining, provider_num, calls, all_data,
                   provider_stats, analysisVars, notScannerVars>>

NextScanner == StartScan \/ TryProvider \/ FinishScan

ScannerSpec == InitScanner /\ [][NextScanner]_vars

\* ---------------------------------------------------------------------
\* AdvancedRateLimiter: can_call, wait_until_ready and record_call for one
\* provider, on a clock of one-second ticks. The limits of the provider
\* and the lengths of the minute and the day are scaled down so that a
\* full minute window, an exhausted daily quota and a change of date all
\* happen within MaxTime ticks.
\* ---------------------------------------------------------------------
Delay == 1          \* limits['delay_between_calls'], in ticks
PerMinute == 2      \* limits['per_minute']
PerDay == 3         \* limits['per_day']
Minute == 3         \* timedelta(minutes=1), in ticks
Day == 8            \* ticks from one midnight to the next
MaxTime == Day + Minute + 2  \* last tick of the clock

MaxUnlimited == 1   \* most calls recorded for a provider without limits

OneSecond == 1      \* the 1.0 of min(wait_time, 1.0), in ticks

\* a provider with an entry in PROVIDER_LIMITS and one without
LimitedProviders == {"Polygon"}
ProviderNames == LimitedProviders \cup {"Yahoo"}

MaxWaits == {0, 2}

\* now.date()
date(time) == time \div Day

\* recent_calls = [t for t in self.call_times[provider_name] if t > cutoff]
recent_calls(times, time) == SelectSeq(times, LAMBDA c : c > time - Minute)

\* can_call at clock value time: the answer and the daily counter it
\* leaves; of daily_reset_time the code reads only the date, which is what
\* the model keeps
can_call(name, time, times, last, count, reset) ==
    IF name \notin LimitedProviders
    THEN [ok |-> TRUE, daily_count |-> count, daily_reset_time |-> reset]
    ELSE LET created == IF reset = -1 THEN date(time) ELSE reset
             new_day == date(time) # created
             count1 == IF new_day THEN 0 ELSE count
             reset1 == IF new_day THEN date(time) ELSE created
             ok == /\ ~(count1 >= PerDay)
                   /\ ~(Len(recent_calls(times, time)) >= PerMinute)
                   /\ ~(last # 0 /\ time - last < Delay)
         IN  [ok |-> ok, daily_count |-> count1, daily_reset_time |-> reset1]

CanCallNow ==
    can_call(provider_name, now, call_times, last_call_time, daily_count, daily_reset_time)

SleepTicks == Min(Delay, OneSecond)

wait_expired_early(time, start, wait) == ~(time - start < wait - 1)

\* the negation of the loop condition time.time() - start_time < max_wait
wait_expired(time, start, wait) == ~(time - start < wait)

InitLimiter ==
    /\ pc = "limiter"
    /\ now = 1
    /\ provider_name \in ProviderNames
    /\ call_times = <<>>
    /\ last_call_time = 0
    /\ daily_count = 0
    /\ daily_reset_time = -1
    /\ can_call_result = FALSE
    /\ start_time = 0
    /\ max_wait = 0
    /\ wait_result = "none"
    /\ FetchIdle
    /\ AnalysisIdle
    /\ ScanAllIdle /\ ScannerIdle /\ RateIdle

\* time passes between two calls the running thread makes to the limiter
TimePasses ==
    /\ pc \in {"limiter", "allowed"}
    /\ now < MaxTime
    /\ now' = now + 1
    /\ UNCHANGED <<pc, provider_name, call_times, last_call_time, daily_count,
                   daily_reset_time, can_call_result, start_time, max_wait,
                   wait_result, fetchVars, analysisVars, notLimiterVars>>

\* ok, reason = limiter.can_call(provider_name)
CanCall ==
    /\ pc \in {"limiter", "allowed"}
    /\ can_call_result' = CanCallNow.ok
    /\ daily_count' = CanCallNow.daily_count
    /\ daily_reset_time' = CanCallNow.daily_reset_time
    /\ pc' = IF CanCallNow.ok THEN "allowed" ELSE "limiter"
    /\ UNCHANGED <<now, provider_name, call_times, last_call_time, start_time,
                   max_wait, wait_result, fetchVars, analysisVars, notLimiterVars>>

\* limiter.record_call(provider_name), made after can_call or
\* wait_until_ready returned True
RecordCall ==
    /\ pc = "allowed"
    /\ provider_name \in LimitedProviders \/ Len(call_times) < MaxUnlimited
    /\ call_times' = SelectSeq(Append(call_times, now), LAMBDA c : c > now - Day)
    /\ last_call_time' = now
    /\ daily_count' = daily_count + 1
    /\ pc' = "limiter"
    /\ UNCHANGED <<now, provider_name, daily_reset_time, can_call_result,
                   start_time, max_wait, wait_result, fetchVars, analysisVars,
                   notLimiterVars>>

\* wait_until_ready(provider_name, max_wait) up to the loop
WaitUntilReady ==
    /\ pc \in {"limiter", "allowed"}
    /\ \E wait \in MaxWaits :
          /\ now + wait + SleepTicks <= MaxTime
          /\ IF provider_name \notin LimitedProviders
             THEN /\ wait_result' = "True"
                  /\ pc' = "allowed"
                  /\ UNCHANGED <<start_time, max_wait>>
             ELSE /\ start_time' = now
                  /\ max_wait' = wait
                  /\ wait_result' = "none"
                  /\ pc' = "waiting"
    /\ UNCHANGED <<now, provider_name, call_times, last_call_time, daily_count,
                   daily_reset_time, can_call_result, fetchVars, analysisVars,
                   notLimiterVars>>

\* one pass of the while loop up to its sleep, or the return after it
WaitLoop ==
    /\ pc = "waiting"
    /\ IF wait_expired(now, start_time, max_wait)
       THEN /\ wait_result' = "False"
            /\ pc' = "limiter"
            /\ UNCHANGED <<daily_count, daily_reset_time, can_call_result>>
       ELSE /\ can_call_result' = CanCallNow.ok
            /\ daily_count' = CanCallNow.daily_count
            /\ daily_reset_time' = CanCallNow.daily_reset_time
            /\ IF CanCallNow.ok
               THEN wait_result' = "True" /\ pc' = "allowed"
               ELSE wait_result' = "none" /\ pc' = "sleeping"
    /\ UNCHANGED <<now, provider_name, call_times, last_call_time, start_time,
                   max_wait, fetchVars, analysisVars, notLimiterVars>>

\* time.sleep(min(wait_time, 1.0)) returns, no earlier than asked
SleepReturns ==
    /\ pc = "sleeping"
    /\ \E slept \in {SleepTicks, SleepTicks + 1} : now' = now + slept
    /\ pc' = "waiting"
    /\ UNCHANGED <<provider_name, call_times, last_call_time, daily_count,
                   daily_reset_time, can_call_result, start_time, max_wait,
                   wait_result, fetchVars, analysisVars, notLimiterVars>>

NextLimiter ==
    TimePasses \/ CanCall \/ RecordCall \/ WaitUntilReady \/ WaitLoop \/ SleepReturns

LimiterSpec == InitLimiter /\ [][NextLimiter]_vars

\* the thread inside wait_until_ready keeps running and its sleep ends
LimiterLiveSpec == LimiterSpec /\ WF_vars(WaitLoop) /\ WF_vars(SleepReturns)

\* ---------------------------------------------------------------------
\* PolygonProvider.fetch_data: one request per symbol through
\* BaseProvider._make_request, paced by the provider's AdvancedRateLimiter
\* ---------------------------------------------------------------------
MaxTodo == 4        \* longest list passed to fetch_data

max_retries == 3    \* self.max_retries
retry_delay == 1    \* self.retry_delay, in ticks

RECURSIVE Pow(_, _)
Pow(base, exponent) == IF exponent = 0 THEN 1 ELSE base * Pow(base, exponent - 1)

\* What session.get, raise_for_status and response.json() give: a body with
\* the key fetch_data looks for, a body without it, or a RequestException
HttpOutcomes == {"body", "other", "error"}

retry_allowed_always(tried) == TRUE

\* attempt < self.max_retries - 1
retry_allowed(tried) == tried < max_retries - 1

InitFetch ==
    /\ pc = "fetch"
    /\ now = 1
    /\ provider_name = "Polygon"
    /\ call_times = <<>>
    /\ last_call_time = 0
    /\ daily_count = 0
    /\ daily_reset_time = -1
    /\ can_call_result = FALSE
    /\ start_time = 0
    /\ max_wait = 0
    /\ wait_result = "none"
    /\ todo \in 0 .. MaxTodo
    /\ attempt = 0
    /\ requests = <<>>
    /\ sleeps = <<>>
    /\ response = "none"
    /\ fetched_data = 0
    /\ AnalysisIdle
    /\ ScanAllIdle /\ ScannerIdle /\ RateIdle

\* the head of the loop over the symbols: the call of wait_until_ready with
\* its default max_wait of one minute, or the return after the last symbol
FetchLoop ==
    /\ pc = "fetch"
    /\ IF todo = 0
       THEN /\ pc' = "fetched"
            /\ UNCHANGED <<start_time, max_wait, wait_result>>
       ELSE /\ now + Minute + SleepTicks <= MaxTime
            /\ start_time' = now
            /\ max_wait' = Minute
            /\ wait_result' = "none"
            /\ pc' = "waiting"
    /\ UNCHANGED <<now, provider_name, call_times, last_call_time, daily_count,
                   daily_reset_time, can_call_result, fetchVars, analysisVars,
                   notLimiterVars>>

\* wait_until_ready returned False: break, and fetch_data returns
Break ==
    /\ pc = "limiter"
    /\ pc' = "fetched"
    /\ UNCHANGED <<limiterVars, fetchVars, analysisVars, notLimiterVars>>

\* one pass of the loop of _make_request: the request, which is answered
\* within the tick, and what follows it up to the sleep or the return
SendRequest ==
    /\ pc \in {"allowed", "request"}
    /\ requests' = Append(requests, [at |-> now, symbol |-> todo])
    /\ \E got \in HttpOutcomes :
          IF got # "error"
          THEN /\ response' = got
               /\ pc' = "got_response"
               /\ UNCHANGED sleeps
          ELSE IF retry_allowed(attempt)
               THEN /\ sleeps' = Append(sleeps, now)
                    /\ pc' = "retry_sleep"
                    /\ UNCHANGED response
               ELSE /\ response' = "None"
                    /\ pc' = "got_response"
                    /\ UNCHANGED sleeps
    /\ UNCHANGED <<todo, attempt, fetched_data, limiterVars, analysisVars, notLimiterVars>>

\* time.sleep(wait) returns, no earlier than asked, and the loop goes on
\* to the next attempt
RetrySleepReturns ==
    /\ pc = "retry_sleep"
    /\ \E slept \in {Pow(retry_delay, attempt), Pow(retry_delay, attempt) + 1} :
          /\ now + slept <= MaxTime
          /\ now' = now + slept
    /\ attempt' = attempt + 1
    /\ pc' = "request"
    /\ UNCHANGED <<provider_name, call_times, last_call_time, daily_count,
                   daily_reset_time, can_call_result, start_time, max_wait,
                   wait_result, todo, requests, sleeps, response, fetched_data,
                   analysisVars, notLimiterVars>>

\* if response and 'c' in response: append and record_call; then the
\* next symbol
HandleResponse ==
    /\ pc = "got_response"
    /\ IF response = "body"
       THEN /\ fetched_data' = fetched_data + 1
            /\ call_times' = SelectSeq(Append(call_times, now), LAMBDA c : c > now - Day)
            /\ last_call_time' = now
            /\ daily_count' = daily_count + 1
       ELSE UNCHANGED <<fetched_data, call_times, last_call_time, daily_count>>
    /\ todo' = todo - 1
    /\ attempt' = 0
    /\ sleeps' = <<>>
    /\ pc' = "fetch"
    /\ UNCHANGED <<now, provider_name, daily_reset_time, can_call_result,
                   start_time, max_wait, wait_result, requests, response,
                   analysisVars, notLimiterVars>>

NextFetch ==
    \/ FetchLoop
    \/ WaitLoop
    \/ SleepReturns
    \/ Break
    \/ SendRequest
    \/ RetrySleepReturns
    \/ HandleResponse

FetchSpec == InitFetch /\ [][NextFetch]_vars

\* ---------------------------------------------------------------------
\* RateLimiter: wait_if_needed and record_call for one provider
\* ---------------------------------------------------------------------
MaxPerMin == 2      \* largest calls_per_min passed to wait_if_needed

\* now - self.minute_calls[provider]: a datetime minus a list
datetime_minus_list(time, times) == Raised

\* wait_if_needed at clock value time: the pruned list, and how the call
\* ends
wait_if_needed(times, time, limit) ==
    LET kept == SelectSeq(times, LAMBDA c : c > time - Minute)
    IN  IF Len(kept) >= limit
        THEN IF datetime_minus_list(time, kept) = Raised
             THEN [minute_calls |-> kept, outcome |-> "TypeError"]
             ELSE [minute_calls |-> kept, outcome |-> "slept"]
        ELSE [minute_calls |-> kept, outcome |-> "returned"]

InitRate ==
    /\ pc = "rate"
    /\ now = 1
    /\ minute_calls = <<>>
    /\ day_calls = 0
    /\ calls_per_min \in 1 .. MaxPerMin
    /\ outcome = "none"
    /\ provider_name = "none"
    /\ call_times = <<>>
    /\ last_call_time = 0
    /\ daily_count = 0
    /\ daily_reset_time = -1
    /\ can_call_result = FALSE
    /\ start_time = 0
    /\ max_wait = 0
    /\ wait_result = "none"
    /\ AnalysisIdle
    /\ ScanAllIdle /\ ScannerIdle /\ FetchIdle

\* time passes between two calls the caller makes to the limiter
ClockAdvances ==
    /\ pc \in {"rate", "rate_returned", "rate_raised"}
    /\ now < MaxTime
    /\ now' = now + 1
    /\ UNCHANGED <<pc, provider_name, call_times, last_call_time, daily_count,
                   daily_reset_time, can_call_result, start_time, max_wait,
                   wait_result, rateVars, analysisVars, notRateVars>>

\* limiter.wait_if_needed(provider, calls_per_min, calls_per_day)
WaitIfNeeded ==
    /\ pc \in {"rate", "rate_raised"}
    /\ LET ended == wait_if_needed(minute_calls, now, calls_per_min)
       IN  /\ minute_calls' = ended.minute_calls
           /\ outcome' = ended.outcome
           /\ pc' = IF ended.outcome = "TypeError" THEN "rate_raised" ELSE "rate_returned"
    /\ UNCHANGED <<day_calls, calls_per_min, limiterVars, analysisVars, notRateVars>>

\* the API call made after wait_if_needed returned, and record_call
RateRecordCall ==
    /\ pc = "rate_returned"
    /\ minute_calls' = Append(minute_calls, now)
    /\ day_calls' = day_calls + 1
    /\ pc' = "rate"
    /\ UNCHANGED <<calls_per_min, outcome, limiterVars, analysisVars, notRateVars>>

NextRate == ClockAdvances \/ WaitIfNeeded \/ RateRecordCall

RateSpec == InitRate /\ [][NextRate]_vars

\* =====================================================================
\* Properties
\* =====================================================================
Labels == {"STRONG BUY", "BUY", "NEUTRAL", "SELL", "STRONG SELL"}

SignalRank(l) ==
    CASE l = "STRONG BUY" -> 4
      [] l = "BUY" -> 3
      [] l = "NEUTRAL" -> 2
      [] l = "SELL" -> 1
      [] OTHER -> 0

\* C1: for every row of finite indicator values and every price history,
\* including bb_upper = bb_lower and a zero close `days` bars back,
\* calculate_momentum_score returns a value in [0, 100].
C1_ScoreInRange == pc = "scored" => (0 <= score /\ score <= 100 * SCALE)

C1_Witness ==
    /\ pc = "scored"
    /\ row["bollinger_upper_20"] = row["bollinger_lower_20"]
    /\ df_symbol.given
    /\ Len(df_symbol.close) = VelocityDays + 1
    /\ df_symbol.close[1] = 0
    /\ score # 50 * SCALE

\* C2: the score returned is the weighted sum 0.30 rsi + 0.30 macd + 0.20
\* bollinger + 0.20 velocity of the component scores clamped to [0, 100],
\* the velocity component being score_price_velocity(df_symbol) for a
\* non-empty df_symbol and 50 otherwise; the weights sum to 1.
C2_WeightedComposite ==
    pc = "scored" =>
        LET rs == score_rsi(row["rsi_14"])
            ms == score_macd(row["macd_12_26_9"], row["macd_signal_9"], row["macd_histogram"])
            bs == score_bollinger_bands(row["close"], row["bollinger_upper_20"],
                                        row["bollinger_middle_20"], row["bollinger_lower_20"])
            vs == IF df_symbol # None /\ df_symbol.close # <<>>
                  THEN score_price_velocity(df_symbol.close, 5)
                  ELSE 50 * SCALE
            weighted == (30 * rs + 30 * ms + 20 * bs + 20 * vs) \div 100
        IN  /\ score = (IF weighted < 0 THEN 0
                        ELSE IF weighted > 100 * SCALE THEN 100 * SCALE ELSE weighted)
            /\ WeightRsi + WeightMacd + WeightBollinger + WeightVelocity = 100

C2_Witness ==
    /\ pc = "scored"
    /\ df_symbol.given
    /\ Len(df_symbol.close) = VelocityDays + 1
    /\ df_symbol.close[1] > 0
    /\ score_price_velocity(df_symbol.close, VelocityDays) # 50 * SCALE
    /\ score_rsi(row["rsi_14"]) # score_bollinger_bands(row["close"],
           row["bollinger_upper_20"], row["bollinger_middle_20"], row["bollinger_lower_20"])

\* C3: get_signal maps every score to exactly one label with closed lower
\* bounds 80, 60, 40, 20, and a higher score never gets a weaker label.
C3_SignalMapping ==
    pc = "labelled" =>
        /\ label \in Labels
        /\ (label = "STRONG BUY") <=> (score >= 80 * SCALE)
        /\ (label = "BUY") <=> (60 * SCALE <= score /\ score < 80 * SCALE)
        /\ (label = "NEUTRAL") <=> (40 * SCALE <= score /\ score < 60 * SCALE)
        /\ (label = "SELL") <=> (20 * SCALE <= score /\ score < 40 * SCALE)
        /\ (label = "STRONG SELL") <=> (score < 20 * SCALE)
        /\ \A s2 \in ScoreInputs :
              s2 >= score => SignalRank(get_signal(s2)) >= SignalRank(label)

C3_Witness == pc = "labelled" /\ score = 80 * SCALE /\ label = "STRONG BUY"

\* C12: for every rsi value score_rsi is min(100, 80 + (30 - rsi)/3) below
\* 30, 40 + (rsi - 30)/2 from 30 up to 50, 60 + (rsi - 50)/2 from 50 up to
\* 70 and max(0, 40 - (rsi - 70)/3) from 70 on, so that rsi = 50 scores 60.
C12_RsiPiecewise ==
    pc = "scored" =>
        LET r == row["rsi_14"]
            s == components.rsi_score
        IN  /\ r < 30 * SCALE => s = Min(100 * SCALE, 80 * SCALE + (30 * SCALE - r) \div 3)
            /\ (30 * SCALE <= r /\ r < 50 * SCALE) => s = 40 * SCALE + (r - 30 * SCALE) \div 2
            /\ (50 * SCALE <= r /\ r < 70 * SCALE) => s = 60 * SCALE + (r - 50 * SCALE) \div 2
            /\ r >= 70 * SCALE => s = Max(0, 40 * SCALE - (r - 70 * SCALE) \div 3)
            /\ r = 50 * SCALE => s = 60 * SCALE

C12_Witness == pc = "scored" /\ row["rsi_14"] = 50 * SCALE /\ components.rsi_score = 60 * SCALE

\* C13: for every histogram h score_macd is 50 + min(|h|, 2)/2 * 50 when
\* h > 0 and 50 - min(|h|, 2)/2 * 50 when h <= 0; the bearish branch, which
\* does not clamp |h|, still returns the clamped value, and h = 0 scores 50.
C13_MacdClamped ==
    pc = "scored" =>
        LET h == row["macd_histogram"]
            s == components.macd_score
            clamped == Min(Abs(h), 2 * SCALE)
        IN  /\ h > 0 => s = 50 * SCALE + (clamped * 50) \div 2
            /\ h <= 0 => s = 50 * SCALE - (clamped * 50) \div 2
            /\ h = 0 => s = 50 * SCALE

C13_Witness == pc = "scored" /\ row["macd_histogram"] < -2 * SCALE /\ components.macd_score = 0

\* the position of the close within the bands, clamped to [0, 1], as a score
BandPositionScore ==
    LET position == FDiv(row["close"] - row["bollinger_lower_20"],
                         row["bollinger_upper_20"] - row["bollinger_lower_20"])
    IN  100 * SCALE - Max(0, Min(SCALE, position)) * 100

\* C14 as stated: whenever bb_upper # bb_lower, also when bb_upper < bb_lower,
\* score_bollinger_bands is 100 - 100 * clamp((close - bb_lower)/(bb_upper -
\* bb_lower), 0, 1); it is 50 when bb_upper = bb_lower.
C14_Original ==
    pc = "scored" =>
        /\ row["bollinger_upper_20"] # row["bollinger_lower_20"]
              => components.bb_score = BandPositionScore
        /\ row["bollinger_upper_20"] = row["bollinger_lower_20"]
              => components.bb_score = 50 * SCALE

\* C14: score_bollinger_bands is 100 - 100 * clamp((close - bb_lower)/
\* (bb_upper - bb_lower), 0, 1) when bb_upper > bb_lower, and exactly 50 when
\* bb_upper = bb_lower and when bb_upper < bb_lower.
C14_BandPosition ==
    pc = "scored" =>
        /\ row["bollinger_upper_20"] > row["bollinger_lower_20"]
              => components.bb_score = BandPositionScore
        /\ row["bollinger_upper_20"] <= row["bollinger_lower_20"]
              => components.bb_score = 50 * SCALE

C14_Witness ==
    /\ pc = "scored"
    /\ row["bollinger_upper_20"] < row["bollinger_lower_20"]
    /\ row["close"] = row["bollinger_lower_20"]
    /\ components.bb_score = 50 * SCALE

\* the close `d` bars before the last of a history, and the change to the last
HasPct(cs, d) == Len(cs) >= d + 1 /\ cs[Len(cs) - d] # 0
PctChange(cs, d) == FDiv((cs[Len(cs)] - cs[Len(cs) - d]) * 100, cs[Len(cs) - d])

\* C15: score_price_velocity returns 50 for a history shorter than days + 1
\* bars or whose close `days` bars back is 0; otherwise min(100, 80 + pct) for
\* pct >= 5, 50 + pct for -5 <= pct < 5 and max(0, 20 + pct) for pct < -5; the
\* result lies in [0, 100] and never decreases as pct increases.
C15_VelocityPiecewise ==
    pc = "velocity" =>
        LET cs == df_symbol.close
        IN  /\ 0 <= velocity /\ velocity <= 100 * SCALE
            /\ ~HasPct(cs, days) => velocity = 50 * SCALE
            /\ HasPct(cs, days) =>
                LET pct == PctChange(cs, days)
                IN  /\ pct >= 5 * SCALE => velocity = Min(100 * SCALE, 80 * SCALE + pct)
                    /\ (-5 * SCALE <= pct /\ pct < 5 * SCALE) => velocity = 50 * SCALE + pct
                    /\ pct < -5 * SCALE => velocity = Max(0, 20 * SCALE + pct)
                    /\ \A h \in HistoryInputs :
                          (HasPct(h, days) /\ PctChange(h, days) >= pct)
                              => score_price_velocity(h, days) >= velocity

C15_Witness ==
    /\ pc = "velocity"
    /\ HasPct(df_symbol.close, days)
    /\ PctChange(df_symbol.close, days) = 5 * SCALE
    /\ velocity = 85 * SCALE

\* the value a field of the row is documented to take when the row lacks it
NeutralValue(k) ==
    CASE k = "rsi_14" -> 50 * SCALE
      [] k \in {"macd_12_26_9", "macd_signal_9", "macd_histogram"} -> 0
      [] OTHER -> row["close"]

FieldOrNeutral(k) == IF k \in DOMAIN row THEN row[k] ELSE NeutralValue(k)

Weighted(rs, ms, bs, vs) == Max(0, Min(100 * SCALE, (30 * rs + 30 * ms + 20 * bs + 20 * vs) \div 100))

\* the component computations that end in an exception on this row
RsiFails == FieldOrNeutral("rsi_14") = Unparseable
MacdFails == FieldOrNeutral("macd_histogram") = Unparseable
BollingerFails ==
    /\ FieldOrNeutral("bollinger_upper_20") # FieldOrNeutral("bollinger_lower_20")
    /\ Unparseable \in {row["close"], FieldOrNeutral("bollinger_upper_20"),
                        FieldOrNeutral("bollinger_lower_20")}

BollingerWithNeutralValues ==
    score_bollinger_bands(row["close"], FieldOrNeutral("bollinger_upper_20"),
                          FieldOrNeutral("bollinger_middle_20"),
                          FieldOrNeutral("bollinger_lower_20"))

\* the score of the row with every lacking field at its neutral value
ScoreWithNeutralValues ==
    Weighted(score_rsi(FieldOrNeutral("rsi_14")),
             score_macd(FieldOrNeutral("macd_12_26_9"), FieldOrNeutral("macd_signal_9"),
                        FieldOrNeutral("macd_histogram")),
             BollingerWithNeutralValues,
             velocity_score_of(df_symbol))

\* C17 as stated: calculate_momentum_score never raises, scores a row that
\* lacks fields as if they held their neutral values, and returns exactly 50
\* when a component computation fails on an unparseable field.
C17_Original ==
    pc = "scored_partial" =>
        /\ score # Raised
        /\ ~(RsiFails \/ MacdFails \/ BollingerFails) => score = ScoreWithNeutralValues
        /\ (RsiFails \/ MacdFails \/ BollingerFails) => score = 50 * SCALE

\* C17: calculate_momentum_score never raises and scores a row that lacks
\* fields as if they held their neutral values; when score_rsi fails on an
\* unparseable rsi it returns exactly 50; when only score_macd or
\* score_bollinger_bands fails on an unparseable field, that component
\* counts as 50 and the weighted sum of the four components is returned.
C17_NeutralDefaults ==
    pc = "scored_partial" =>
        /\ score # Raised
        /\ 0 <= score /\ score <= 100 * SCALE
        /\ ~(RsiFails \/ MacdFails \/ BollingerFails) => score = ScoreWithNeutralValues
        /\ RsiFails => score = 50 * SCALE
        /\ (~RsiFails /\ (MacdFails \/ BollingerFails)) =>
              score = Weighted(score_rsi(FieldOrNeutral("rsi_14")),
                               IF MacdFails THEN 50 * SCALE
                               ELSE score_macd(0, 0, FieldOrNeutral("macd_histogram")),
                               IF BollingerFails THEN 50 * SCALE
                               ELSE BollingerWithNeutralValues,
                               velocity_score_of(df_symbol))

C17_Witness ==
    /\ pc = "scored_partial"
    /\ "rsi_14" \notin DOMAIN row
    /\ "bollinger_upper_20" \notin DOMAIN row
    /\ "macd_histogram" \in DOMAIN row
    /\ row["macd_histogram"] = Unparseable
    /\ score # 50 * SCALE

\* ---------------------------------------------------------------------
\* Scenarios of the pipeline
\* ---------------------------------------------------------------------
ScenarioBars == 30
WarmUpBars == MacdSlow + MacdSignal - 1

Closes == df["close"]
LastBar == Len(Closes)
LastRow == RowAt(df, LastBar)

FlatAt100 == \A i \in 1 .. LastBar : Closes[i] = 100 * SCALE
RisingHalfPerBar ==
    /\ LastBar = ScenarioBars
    /\ \A i \in 2 .. LastBar : Closes[i] - Closes[i - 1] = SCALE \div 2

LastMacdScore ==
    score_macd(LastRow["macd_12_26_9"], LastRow["macd_signal_9"], LastRow["macd_histogram"])
LastBollingerScore ==
    score_bollinger_bands(LastRow["close"], LastRow["bollinger_upper_20"],
                          LastRow["bollinger_middle_20"], LastRow["bollinger_lower_20"])
LastVelocityScore == score_price_velocity(Closes, VelocityDays)

FlatScenario == pc = "reported" /\ FlatAt100 /\ LastBar >= WarmUpBars
RisingScenario == pc = "reported" /\ RisingHalfPerBar

FlatComponents ==
    /\ LastRow["rsi_14"] = 50 * SCALE
    /\ LastRow["macd_histogram"] = 0
    /\ LastMacdScore = 50 * SCALE
    /\ LastBollingerScore = 50 * SCALE
    /\ LastVelocityScore = 50 * SCALE
    /\ latest.signal = "NEUTRAL"

\* C4 as stated: a flat series at 100 gives RSI 50, histogram 0, MACD,
\* Bollinger and velocity scores 50, a composite score of exactly 50.0 and
\* the signal NEUTRAL.
C4_Original ==
    FlatScenario => (FlatComponents /\ latest.momentum_score = 50 * SCALE)

\* C4 (amended): a flat series at 100 gives RSI 50, histogram 0, MACD,
\* Bollinger and velocity scores 50 and the signal NEUTRAL, and a composite
\* score of exactly 53.0, because score_rsi(50) is 60.
C4_FlatSeries ==
    FlatScenario =>
        /\ FlatComponents
        /\ latest.momentum_score = 53 * SCALE
        /\ LastRow["momentum_score"] = latest.momentum_score

C4_Witness == FlatScenario /\ latest.momentum_score > 0

ScoreAtOwnBar(i) == calculate_momentum_score(RowAt(df, i), Table(SubSeq(Closes, 1, i)))

\* C16: the velocity component of the momentum_score of each bar t scored by
\* add_momentum_scores is computed from close[t] and close[t - days], and is
\* 50 when bar t has fewer than `days` predecessors.
C16_Original ==
    pc \in {"with_scores", "reported"} =>
        \A i \in 1 .. LastBar : df["momentum_score"][i] = ScoreAtOwnBar(i)

\* ---------------------------------------------------------------------
\* Single indicator calls
\* ---------------------------------------------------------------------
Bars == 1 .. Len(prices)
AvgGain == rolling_gain(prices, period)
AvgLoss == rolling_loss(prices, period)

\* C6: for every series of positive prices, every value calculate_rsi
\* returns lies in [0, 100].
C6_RsiInRange ==
    "rsi" \in called =>
        /\ Len(rsi) = Len(prices)
        /\ \A i \in Bars : 0 <= rsi[i] /\ rsi[i] <= 100 * SCALE

C6_Witness ==
    /\ "rsi" \in called
    /\ \A i \in Bars : prices[i] > 0
    /\ \E i \in Bars : rsi[i] \notin {0, 50 * SCALE, 100 * SCALE}
    /\ \E i \in Bars : rsi[i] = 0

\* C7 as stated: calculate_rsi(closes, period) returns exactly 50 on each of
\* the first `period` bars (bar indices 0 .. period-1), whatever the prices.
C7_Original ==
    "rsi" \in called => \A i \in Bars : i <= period => rsi[i] = 50 * SCALE

C10_BandsOrdered ==
    "bollinger" \in called =>
        /\ Len(bands.upper) = Len(prices)
        /\ Len(bands.middle) = Len(prices)
        /\ Len(bands.lower) = Len(prices)
        /\ \A i \in Bars :
              /\ bands.lower[i] <= bands.middle[i]
              /\ bands.middle[i] <= bands.upper[i]
              /\ i < period => (bands.lower[i] = bands.middle[i]
                                /\ bands.middle[i] = bands.upper[i])

C10_Witness ==
    /\ "bollinger" \in called
    /\ period >= 2
    /\ \E i \in Bars : i >= period /\ bands.lower[i] < bands.middle[i]
                       /\ bands.middle[i] < bands.upper[i]
    /\ \E i \in Bars : i < period /\ bands.lower[i] = bands.upper[i]

\* C11: on every bar for which fewer than `period` closes are available
\* calculate_bollinger_bands returns upper = middle = lower = that bar's
\* close, and score_bollinger_bands gives exactly 50 for such a bar.
C11_WarmUpBands ==
    "bollinger" \in called =>
        \A i \in Bars :
            i < period =>
                /\ bands.upper[i] = prices[i]
                /\ bands.middle[i] = prices[i]
                /\ bands.lower[i] = prices[i]
                /\ score_bollinger_bands(prices[i], bands.upper[i], bands.middle[i],
                                         bands.lower[i]) = 50 * SCALE

C11_Witness ==
    /\ "bollinger" \in called
    /\ period = MaxPeriod
    /\ Len(prices) > period
    /\ bands.upper[period - 1] = prices[period - 1]
    /\ bands.upper[period] > prices[period]

\* ---------------------------------------------------------------------
\* Stream of bars
\* ---------------------------------------------------------------------
HistogramFollowsTrend ==
    /\ trend = "up" => histogram > 0
    /\ trend = "down" => histogram < 0

\* C9 as stated: for every strictly increasing close sequence there is a
\* bar after which the MACD histogram is positive on every later bar, and
\* for every strictly decreasing one it is eventually negative on every
\* later bar.  A series ends where its input ends; the scanner passes about
\* ScenarioBars bars, so the statement is read on the series that are at
\* least that long.
C9_Original == <>[](t >= ScenarioBars => HistogramFollowsTrend)

\* C9 (amended): for every close sequence of up to MaxBars bars whose
\* per-bar rise (fall) is never smaller than the one before it, the MACD
\* histogram is positive (negative) on every bar after the first.
C9_SteadyTrend == (t >= 2 /\ ~shrunk) => HistogramFollowsTrend

C9_Witness ==
    /\ pc = "returned"
    /\ t >= ScenarioBars
    /\ ~shrunk
    /\ switches = 1
    /\ trend = "down"
    /\ histogram < 0

\* ---------------------------------------------------------------------
\* Tables of several symbols
\* ---------------------------------------------------------------------
Returned == heap[result]

SameSymbol(tbl, i) ==
    IF HasSymbolColumn(tbl) THEN {m \in DOMAIN tbl : tbl[m].symbol = tbl[i].symbol}
    ELSE DOMAIN tbl

\* the computation of the symbol of row i fails internally
ComputationFails(tbl, i) == \E m \in SameSymbol(tbl, i) : tbl[m].close = Unparseable

\* C18: for every input table, also one where the indicator computation of
\* some symbol fails internally, add_indicators_to_dataframe returns a table
\* whose every row holds a defined (non-NaN) value in all seven indicator
\* columns, the neutral default (RSI 50, MACD, signal and histogram 0, bands
\* = close) where the computation failed.
C18_Original ==
    pc = "table_indicators" =>
        \A i \in DOMAIN Returned :
            /\ \A k \in IndicatorColumns : k \in DOMAIN Returned[i] /\ Returned[i][k] # NaN
            /\ ComputationFails(passed, i) =>
                  /\ Returned[i]["rsi_14"] = 50 * SCALE
                  /\ Returned[i]["macd_12_26_9"] = 0
                  /\ Returned[i]["macd_signal_9"] = 0
                  /\ Returned[i]["macd_histogram"] = 0
                  /\ Returned[i]["bollinger_upper_20"] = Returned[i]["close"]
                  /\ Returned[i]["bollinger_middle_20"] = Returned[i]["close"]
                  /\ Returned[i]["bollinger_lower_20"] = Returned[i]["close"]

AllClosesNumbers(tbl) == \A i \in DOMAIN tbl : tbl[i].close # Unparseable

\* the indicator values of the bar of row i: those at its rank in the
\* timestamp-ascending series of its symbol
OwnBar(tbl, i) == 1 + Cardinality({m \in SameSymbol(tbl, i) : tbl[m].timestamp < tbl[i].timestamp})

SeriesOf(tbl, i) ==
    [j \in 1 .. Cardinality(SameSymbol(tbl, i)) |->
        tbl[CHOOSE m \in SameSymbol(tbl, i) : OwnBar(tbl, m) = j].close]

HoldsOwnBarValues(i) ==
    \A k \in IndicatorColumns :
        /\ k \in DOMAIN Returned[i]
        /\ Returned[i][k] = IndicatorsOf(SeriesOf(passed, i))[OwnBar(passed, i)][k]

\* C19: for every table with a symbol column, in any row order,
\* add_indicators_to_dataframe attaches to each row the indicator values
\* computed for that row's own bar of its symbol's timestamp-ascending
\* series (read on tables whose closes are all numbers).
C19_Original ==
    (pc = "table_indicators" /\ HasSymbolColumn(passed) /\ AllClosesNumbers(passed)) =>
        \A i \in DOMAIN Returned : HoldsOwnBarValues(i)

\* C20: add_indicators_to_dataframe and add_momentum_scores leave the table
\* the caller passed unchanged (same rows, same columns, same values) on the
\* success path and on the error path; added columns appear only on the
\* returned copy.
C20_CallerTableUnchanged ==
    pc \in {"table_indicators", "table_scores"} =>
        /\ heap[arg] = passed
        /\ result # arg
        /\ \A i \in DOMAIN passed : "momentum_score" \notin DOMAIN passed[i]
        /\ pc = "table_indicators" =>
              \A i \in DOMAIN passed : DOMAIN passed[i] \cap IndicatorColumns = {}

\* add_momentum_scores took its error path on a table that
\* add_indicators_to_dataframe had extended on its success path
C20_Witness ==
    /\ pc = "table_scores"
    /\ Len(passed) = MaxTableRows
    /\ ~HasSymbolColumn(passed)
    /\ heap[1] # passed
    /\ Returned # passed
    /\ \A i \in DOMAIN Returned : Returned[i]["momentum_score"] = 50 * SCALE
    /\ heap[arg] = passed

CountIn(seq, x) == Cardinality({i \in DOMAIN seq : seq[i] = x})

SameRows(a, b) ==
    /\ Len(a) = Len(b)
    /\ \A x \in Range(a) \cup Range(b) : CountIn(a, x) = CountIn(b, x)

\* the rows of all batches, taken in submission order
RECURSIVE RowsInSubmissionOrder(_)
RowsInSubmissionOrder(batches) ==
    IF batches = <<>> THEN <<>>
    ELSE RowsInSubmissionOrder(SubSeq(batches, 1, Len(batches) - 1))
         \o process_batch(batches[Len(batches)], fetched).results

C22_Returned ==
    pc = "scan_returned" =>
        /\ SameRows(df_filtered,
                    filter_by_score(RowsInSubmissionOrder(create_batches(symbols)),
                                    score_threshold))
        /\ \A i \in DOMAIN df_filtered : df_filtered[i].momentum_score >= score_threshold
        /\ \A i, j \in DOMAIN df_filtered :
              i < j => df_filtered[i].momentum_score >= df_filtered[j].momentum_score

\* C22: worker threads running process_batch write nothing that batches
\* share (all_results, failed_symbols and the fetcher's last_request_time
\* change only in steps of the calling thread), and for every completion
\* order scan_all returns the same rows, each with momentum_score >=
\* score_threshold, in non-increasing order of score.
C22_CompletionOrderFree ==
    /\ [](C22_Returned)
    /\ [][WorkerStep => UNCHANGED <<all_results, failed_symbols, last_request_time>>]_vars

\* two batches, the second collected first, rows of both returned and a
\* row below the threshold dropped
C22_Witness ==
    /\ pc = "scan_returned"
    /\ Len(futures) = 2
    /\ Len(df_filtered) >= 2
    /\ Len(df_filtered) < Len(all_results)
    /\ all_results[1].symbol = symbols[Len(symbols)]
    /\ all_results[1].symbol # symbols[1]
    /\ \E i \in DOMAIN all_results : all_results[i].symbol = symbols[1]
    /\ df_filtered[1].momentum_score > df_filtered[Len(df_filtered)].momentum_score

\* C30: after scan_all returns, every symbol of the input list is
\* accounted for exactly once, by a scored row or in failed_symbols.
C30_Original ==
    pc = "scan_returned" =>
        \A s \in Range(symbols) :
            CountIn([i \in DOMAIN all_results |-> all_results[i].symbol], s)
            + CountIn(failed_symbols, s) = 1

\* ---------------------------------------------------------------------
\* StockScanner.scan
\* ---------------------------------------------------------------------
\* the symbols the first n calls of this scan returned
RetrievedBefore(n) == UNION {calls[k].retrieved : k \in 1 .. (n - 1)}

C23_Calls ==
    /\ \A k \in DOMAIN calls :
          /\ calls[k].provider = Providers[k]
          /\ calls[k].asked = Range(scan_symbols) \ RetrievedBefore(k)
          /\ calls[k].asked # {}
          /\ calls[k].raises =>
                calls[k].retrieved = {} /\ provider_stats[calls[k].provider] = 0
    /\ pc = "scan_returned_stats" =>
          /\ Range(scanner_failed) = Range(scan_symbols) \ RetrievedBefore(Len(calls) + 1)
          /\ Len(scanner_failed) = Cardinality(Range(scanner_failed))
          /\ Len(calls) < Len(Providers) => remaining = {}

\* C23: scan tries the providers in their fixed priority order, asks each
\* only for the symbols no earlier provider returned, calls no provider
\* once no symbol remains, records a provider that raises with 0 symbols
\* and goes on to the next, and ends with failed = the requested symbols
\* that no tried provider returned.
C23_ProviderFallback ==
    /\ [](C23_Calls)
    /\ [][TryProvider =>
            /\ remaining # {}
            /\ provider_num' = provider_num + 1
            /\ calls'[Len(calls')].raises =>
                  /\ provider_stats'[Providers[provider_num]] = 0
                  /\ remaining' = remaining
                  /\ pc' = "scanning"]_vars

\* a scan in which a provider raised, a later one returned a symbol, and a
\* symbol was left over after all seven were tried
C23_Witness ==
    /\ pc = "scan_returned_stats"
    /\ Len(calls) = Len(Providers)
    /\ \E k \in DOMAIN calls : calls[k].raises /\ \E l \in (k + 1) .. Len(calls) : calls[l].retrieved \cap calls[l].asked # {}
    /\ Len(scanner_failed) = 1
    /\ Cardinality(Range(scan_symbols)) = 2

\* C29: in the dictionary scan returns, retrieved is the number of distinct
\* requested symbols some provider returned, retrieved + len(failed) =
\* total, and coverage is 0% when no provider returned a requested symbol.
C29_Original ==
    pc = "scan_returned_stats" =>
        /\ scan_result.retrieved =
              Cardinality(Range(scan_symbols) \cap RetrievedBefore(Len(calls) + 1))
        /\ scan_result.retrieved + Len(scan_result.failed) = scan_result.total
        /\ (Range(scan_symbols) \cap RetrievedBefore(Len(calls) + 1) = {})
              => scan_result.coverage = 0

\* ---------------------------------------------------------------------
\* AdvancedRateLimiter
\* ---------------------------------------------------------------------
\* C24: for a provider listed in PROVIDER_LIMITS whose calls are recorded
\* only directly after can_call or wait_until_ready returned True, any
\* window of one minute (open at its older end, as can_call counts it)
\* holds at most per_minute recorded calls, any calendar day at most
\* per_day, and two consecutive recorded calls are at least
\* delay_between_calls apart.
C24_Original ==
    provider_name \in LimitedProviders =>
        /\ \A i \in DOMAIN call_times :
              Len(recent_calls(SubSeq(call_times, 1, i), call_times[i])) <= PerMinute
        /\ \A d \in 0 .. date(MaxTime) :
              Cardinality({i \in DOMAIN call_times : date(call_times[i]) = d}) <= PerDay
        /\ \A i \in DOMAIN call_times :
              i > 1 => call_times[i] - call_times[i - 1] >= Delay

InsideWait == pc \in {"waiting", "sleeping"}

\* C25: wait_until_ready always returns; for a provider without limits it
\* returns True at once; it returns True only when can_call is True,
\* returns False only when max_wait has elapsed since it started; and it
\* never changes the recorded call times or the last-call time.
C25_WaitTerminates ==
    /\ InsideWait ~> ~InsideWait
    /\ [](provider_name \notin LimitedProviders => ~InsideWait)
    /\ [][(InsideWait \/ WaitUntilReady) =>
            /\ UNCHANGED <<call_times, last_call_time>>
            /\ wait_result' = "True" => (CanCallNow.ok)'
            /\ wait_result' = "False" => now - start_time >= max_wait
            /\ (WaitUntilReady /\ provider_name \notin LimitedProviders) =>
                  wait_result' = "True" /\ now' = now]_vars

\* the wait has just returned False with the daily quota used up, having
\* slept and checked again
C25_Witness ==
    /\ pc = "limiter"
    /\ wait_result = "False"
    /\ max_wait > 1
    /\ now - start_time >= max_wait
    /\ daily_count >= PerDay
    /\ ~CanCallNow.ok

\* ---------------------------------------------------------------------
\* fetch_data and _make_request
\* ---------------------------------------------------------------------
RequestTimes == [i \in DOMAIN requests |-> requests[i].at]

\* C26: the HTTP requests fetch_data sends stay within the provider's
\* per_minute, per_day and delay_between_calls limits, whatever the
\* responses are.
C26_Original ==
    /\ \A i \in DOMAIN requests :
          Len(recent_calls(SubSeq(RequestTimes, 1, i), requests[i].at)) <= PerMinute
    /\ \A d \in 0 .. date(MaxTime) :
          Cardinality({i \in DOMAIN requests : date(requests[i].at) = d}) <= PerDay
    /\ \A i \in DOMAIN requests :
          i > 1 => requests[i].at - requests[i - 1].at >= Delay

\* the requests of the _make_request call for the current symbol
Attempts == {i \in DOMAIN requests : requests[i].symbol = todo}

InsideMakeRequest == pc \in {"request", "retry_sleep", "got_response"}

\* C27: _make_request makes at most max_retries attempts; it returns the
\* body of the first attempt that succeeds without a further attempt; it
\* sleeps after each failed attempt but the last; after the last failed
\* attempt it returns None without sleeping.
C27_Retries ==
    /\ InsideMakeRequest => Cardinality(Attempts) <= max_retries
    /\ pc = "request" => Cardinality(Attempts) = attempt /\ Len(sleeps) = attempt
    /\ pc = "retry_sleep" =>
          /\ Cardinality(Attempts) = attempt + 1
          /\ Len(sleeps) = attempt + 1
          /\ attempt < max_retries - 1
          /\ sleeps[Len(sleeps)] = requests[Len(requests)].at
    /\ pc = "got_response" =>
          /\ Cardinality(Attempts) = attempt + 1
          /\ Len(sleeps) = attempt
          /\ response = "None" => attempt = max_retries - 1
          /\ response \in {"body", "other", "None"}

\* a call that failed twice and got a body from its third attempt, and a
\* call that returned None after three failures
C27_Witness ==
    /\ pc = "got_response"
    /\ response = "None"
    /\ Cardinality(Attempts) = max_retries
    /\ Len(sleeps) = max_retries - 1
    /\ \E i \in DOMAIN requests : requests[i].symbol # todo

\* ---------------------------------------------------------------------
\* RateLimiter
\* ---------------------------------------------------------------------
\* C28: wait_if_needed returns normally in every state, without waiting
\* when fewer than calls_per_min calls were recorded in the last minute
\* and after a sleep otherwise, so that the calls recorded after it never
\* exceed calls_per_min in a minute.
C28_Original ==
    /\ outcome # "TypeError"
    /\ \A i \in DOMAIN minute_calls :
          Len(SelectSeq(SubSeq(minute_calls, 1, i),
                        LAMBDA c : c > minute_calls[i] - Minute)) <= calls_per_min

====
